---- MODULE Spec2Model ----
(***************************************************************************)
(* Model of the core of polykit-number-utils (src/src/core/index.ts and    *)
(* src/src/core/utils.ts).  The library is a set of pure functions, so a   *)
(* behaviour is one call: Init draws the function and its arguments, the   *)
(* function's action computes the outcome (a returned value or a raised    *)
(* error).  A caller may pass the returned value on to a second function   *)
(* (interpolate after normalize, parseNumber after formatNumber,           *)
(* roundToPrecision after itself): fed is then the first call, otherwise   *)
(* NoCall.                                                                 *)
(*                                                                         *)
(* Numbers.  A JavaScript number is a record [k, n, d]:                    *)
(*   k = "fin"  the finite value n/d (d > 0, lowest terms), exact          *)
(*   k = "big"  the finite value n * 2^53 (n = 1 or -1), the smallest      *)
(*              magnitude above Number.MAX_SAFE_INTEGER = 2^53 - 1         *)
(*   k = "inf"  +Infinity (n = 1) or -Infinity (n = -1)                    *)
(*   k = "nan"  NaN                                                        *)
(*   k = "tiny" the finite value 1e-10                                     *)
(*   k = "pow"  the finite value n * d^x (d = 10, 1000 or 1024, x >= 2),   *)
(*              a magnitude too large to be written n/d                    *)
(* Finite arithmetic is exact rational arithmetic; the rounding of         *)
(* double-precision floating point is not modelled, its overflow to an     *)
(* infinity is (Mul).                                                      *)
(*                                                                         *)
(* Strings are sequences of one-character strings.  An optional option     *)
(* field is a set: {} when the caller omitted it, {v} when it was given.   *)
(***************************************************************************)
EXTENDS Integers, Sequences, FiniteSets, TLC

VARIABLES call, res, fed

vars == <<call, res, fed>>

(***************************************************************************)
(* Bounds of the model.                                                    *)
(***************************************************************************)
MaxLen == 3          \* longest array handed to a statistics function
MaxPrecision == 2    \* largest valid decimals / precision drawn as input

(***************************************************************************)
(* Numbers.                                                                *)
(***************************************************************************)
Abs(i) == IF i < 0 THEN -i ELSE i

RECURSIVE Gcd(_, _)
Gcd(a, b) == IF b = 0 THEN a ELSE Gcd(b, a % b)

Fin(n, d) ==
    LET g == Gcd(Abs(n), d)
    IN  [k |-> "fin", n |-> n \div g, d |-> d \div g]

Whole(i) == Fin(i, 1)
NaN == [k |-> "nan", n |-> 0, d |-> 1]
PosInf == [k |-> "inf", n |-> 1, d |-> 1]
NegInf == [k |-> "inf", n |-> -1, d |-> 1]
Big == [k |-> "big", n |-> 1, d |-> 1]
NegBig == [k |-> "big", n |-> -1, d |-> 1]
Zero == Whole(0)

\* n * base^x for a non-zero integer n: a rational of the model when x <= 1.
Scaled(n, base, x) ==
    IF x = 0 THEN Whole(n)
    ELSE IF x = 1 THEN Whole(n * base)
    ELSE [k |-> "pow", n |-> n, d |-> base, x |-> x]

IsNaN(v) == v.k = "nan"
IsFin(v) == v.k = "fin"

\* Position of a non-NaN value on the extended line: -Infinity, -2^53,
\* the rationals of the model, 2^53, +Infinity.  A "pow" value lies beyond
\* the rationals on the side of its sign; the model compares it with
\* rationals only.
Tier(v) ==
    CASE v.k = "inf" -> 2 * v.n
      [] v.k = "big" -> v.n
      [] v.k = "pow" -> IF v.n < 0 THEN -1 ELSE 1
      [] OTHER -> 0

\* 1e-10, the default absolute tolerance: positive and below every positive
\* n/d of the model (n/d >= 1/d > 2^-31 > 1e-10).
Tiny == [k |-> "tiny", n |-> 1, d |-> 1]

\* a < b for two values that are rationals of the model or Tiny.
FinLt(a, b) ==
    CASE a.k = "fin" /\ b.k = "fin" -> a.n * b.d < b.n * a.d
      [] a.k = "tiny" /\ b.k = "fin" -> b.n > 0
      [] a.k = "fin" /\ b.k = "tiny" -> a.n <= 0
      [] OTHER -> FALSE

\* a < b, a <= b, a === b as JavaScript evaluates them (false with NaN).
Lt(a, b) ==
    /\ ~IsNaN(a) /\ ~IsNaN(b)
    /\ \/ Tier(a) < Tier(b)
       \/ Tier(a) = Tier(b) /\ Tier(a) = 0 /\ FinLt(a, b)

Eq(a, b) == ~IsNaN(a) /\ ~IsNaN(b) /\ a = b
Le(a, b) == Lt(a, b) \/ Eq(a, b)
Gt(a, b) == Lt(b, a)
Ge(a, b) == Le(b, a)

Neg(a) == IF IsNaN(a) THEN NaN ELSE [a EXCEPT !.n = -a.n]
MathAbs(a) == IF IsNaN(a) THEN NaN ELSE [a EXCEPT !.n = Abs(a.n)]

\* a + b.  The model never adds to a "big" operand.
Add(a, b) ==
    CASE IsNaN(a) \/ IsNaN(b) -> NaN
      [] a.k = "inf" /\ b.k = "inf" -> IF a.n = b.n THEN a ELSE NaN
      [] a.k = "inf" -> a
      [] b.k = "inf" -> b
      [] IsFin(a) /\ IsFin(b) -> Fin(a.n * b.d + b.n * a.d, a.d * b.d)

Sub(a, b) == Add(a, Neg(b))

Sign(i) == IF i < 0 THEN -1 ELSE IF i > 0 THEN 1 ELSE 0

\* a * b.  A "pow" value is multiplied by 1, or is 1e308 in magnitude and
\* multiplied by an integer of magnitude 10 or more: that product is beyond
\* Number.MAX_VALUE (about 1.8e308), which a double rounds to an infinity.
Mul(a, b) ==
    CASE IsNaN(a) \/ IsNaN(b) -> NaN
      [] a.k = "inf" \/ b.k = "inf" ->
            IF a.n = 0 \/ b.n = 0 THEN NaN
            ELSE [k |-> "inf", n |-> Sign(a.n) * Sign(b.n), d |-> 1]
      [] a.k = "pow" /\ b = Whole(1) -> a
      [] a.k = "pow" /\ a.d = 10 /\ a.x = 308 /\ IsFin(b) /\ b.d = 1 /\ Abs(b.n) >= 10 ->
            [k |-> "inf", n |-> Sign(a.n) * Sign(b.n), d |-> 1]
      [] IsFin(a) /\ IsFin(b) -> Fin(a.n * b.n, a.d * b.d)

\* a / b for a finite non-zero divisor b; a "pow" value is divided by its
\* own base or by 1 only.
Div(a, b) ==
    CASE IsNaN(a) -> NaN
      [] a.k = "inf" -> [a EXCEPT !.n = a.n * Sign(b.n)]
      [] a.k = "pow" /\ b = Whole(1) -> a
      [] a.k = "pow" /\ b = Whole(a.d) -> Scaled(a.n, a.d, a.x - 1)
      [] IsFin(a) /\ IsFin(b) /\ b.n # 0 ->
            Fin(Sign(b.n) * a.n * b.d, a.d * Abs(b.n))

IsInteger(v) == IsFin(v) /\ v.d = 1

MathFloor(v) == IF IsFin(v) THEN Whole(v.n \div v.d) ELSE v
MathCeil(v) == IF IsFin(v) THEN Whole(-((-v.n) \div v.d)) ELSE v
MathTrunc(v) == IF IsFin(v) THEN Whole(Sign(v.n) * (Abs(v.n) \div v.d)) ELSE v
\* Math.round rounds halves towards +Infinity: floor(x + 1/2).
MathRound(v) == IF IsFin(v) THEN Whole((2 * v.n + v.d) \div (2 * v.d)) ELSE v

MathMin(a, b) == IF IsNaN(a) \/ IsNaN(b) THEN NaN ELSE IF Lt(b, a) THEN b ELSE a
MathMax(a, b) == IF IsNaN(a) \/ IsNaN(b) THEN NaN ELSE IF Lt(a, b) THEN b ELSE a

RECURSIVE Pow10(_)
Pow10(p) == IF p = 0 THEN 1 ELSE 10 * Pow10(p - 1)

(***************************************************************************)
(* Outcomes of a call.                                                     *)
(***************************************************************************)
Pending == [st |-> "pending", err |-> "none", val |-> <<>>]
Ret(v) == [st |-> "ret", err |-> "none", val |-> v]
Throw(e) == [st |-> "throw", err |-> e, val |-> <<>>]

NumberFormatError == Throw("NumberFormatError")
RangeError == Throw("RangeError")

Returned(r) == r.st = "ret"
Raised(r) == r.st = "throw"

\* The value of an optional field, or its default when the field is omitted.
OrDefault(field, default) ==
    IF field = {} THEN default ELSE CHOOSE x \in field : TRUE

(***************************************************************************)
(* Validation kernel (utils.ts).                                           *)
(***************************************************************************)
isValidNumber(value) == value.k \in {"fin", "big", "pow"}

isValidDecimals(decimals) ==
    IsInteger(decimals) /\ decimals.n >= 0 /\ decimals.n <= 20

isValidSeparator(separator) == Len(separator) <= 3

\* isInRange taking every range as inclusive.
isInRangeAlwaysInclusive(value, min, max, inclusive) ==
    Ge(value, min) /\ Le(value, max)

isInRange(value, min, max, inclusive) ==
    IF inclusive THEN Ge(value, min) /\ Le(value, max)
    ELSE Gt(value, min) /\ Lt(value, max)

(***************************************************************************)
(* Strings and number-to-string conversions of the platform.               *)
(***************************************************************************)
\* The value undefined where a string was expected; `${undefined}` is the
\* text "undefined".
Undefined == <<"<undefined>">>

Digits == <<"0", "1", "2", "3", "4", "5", "6", "7", "8", "9">>
DigitChars == {Digits[i] : i \in 1..10}

RECURSIVE NatToString(_)
NatToString(n) ==
    IF n < 10 THEN <<Digits[n + 1]>>
    ELSE NatToString(n \div 10) \o <<Digits[(n % 10) + 1]>>

RECURSIVE Repeat(_, _)
Repeat(s, count) == IF count <= 0 THEN <<>> ELSE s \o Repeat(s, count - 1)

\* The digits without their trailing zeros, of which at least keep remain.
RECURSIVE StripZeros(_, _)
StripZeros(frac, keep) ==
    IF Len(frac) > keep /\ frac[Len(frac)] = "0"
    THEN StripZeros(SubSeq(frac, 1, Len(frac) - 1), keep)
    ELSE frac

\* The decimal digits of 2^53, the magnitude of the "big" values.
BigDigits == <<"9", "0", "0", "7", "1", "9", "9", "2", "5", "4", "7", "4", "0", "9", "9", "2">>

\* Number of digits after the point in the decimal expansion of |n|/d
\* (the finite values of the model have terminating expansions).
RECURSIVE FracLen(_, _, _)
FracLen(n, d, k) == IF (n * Pow10(k)) % d = 0 THEN k ELSE FracLen(n, d, k + 1)

\* n as a string of exactly width digits (leading zeros kept).
FixedWidth(n, width) ==
    LET s == NatToString(n)
    IN  IF width = 0 THEN <<>> ELSE Repeat(<<"0">>, width - Len(s)) \o s

\* The digits in exponential notation: d.ddd, 'e', the sign and the exponent.
ExponentialText(digits, sign, exponent) ==
    <<Head(digits)>>
    \o (IF Len(digits) > 1 THEN <<".">> \o Tail(digits) ELSE <<>>)
    \o <<"e", sign>> \o NatToString(exponent)

\* scaled / 10^f in plain decimal notation with f digits after the point.
DecimalText(scaled, f) ==
    NatToString(scaled \div Pow10(f))
    \o (IF f = 0 THEN <<>> ELSE <<".">> \o FixedWidth(scaled % Pow10(f), f))

\* The text of m/d, which has f digits after the point: exponential notation
\* below 1e-6, plain decimal notation otherwise.
RationalText(m, d, f) ==
    IF m > 0 /\ f - Len(NatToString((m * Pow10(f)) \div d)) >= 6
    THEN ExponentialText(NatToString((m * Pow10(f)) \div d), "-",
                         f - Len(NatToString((m * Pow10(f)) \div d)) + 1)
    ELSE DecimalText((m * Pow10(f)) \div d, f)

\* The decimal exponent of n * 1000^x.
PowExponent(v) == Len(NatToString(Abs(v.n))) - 1 + 3 * v.x

\* The text of |n| * 1000^x: exponential notation from 1e21.
PowText(v) ==
    IF PowExponent(v) >= 21
    THEN ExponentialText(StripZeros(NatToString(Abs(v.n)), 1), "+", PowExponent(v))
    ELSE NatToString(Abs(v.n)) \o Repeat(<<"0">>, 3 * v.x)

\* Number.prototype.toString (and `${value}`) on the values of the model:
\* plain decimal notation, and exponential notation for a magnitude below
\* 1e-6 or of 1e21 or more (a multiple n * 1000^x).
NumberToString(v) ==
    CASE v.k = "nan" -> <<"N", "a", "N">>
      [] v.k = "inf" -> (IF v.n < 0 THEN <<"-">> ELSE <<>>) \o <<"I", "n", "f", "i", "n", "i", "t", "y">>
      [] v.k = "big" -> (IF v.n < 0 THEN <<"-">> ELSE <<>>) \o BigDigits
      [] v.k = "pow" /\ v.d = 1000 -> (IF v.n < 0 THEN <<"-">> ELSE <<>>) \o PowText(v)
      [] v.k = "fin" ->
            (IF v.n < 0 THEN <<"-">> ELSE <<>>)
            \o RationalText(Abs(v.n), v.d, FracLen(Abs(v.n), v.d, 0))

\* ToIntegerOrInfinity of a number used as a count of digits.
ToIntegerOrInfinity(v) ==
    CASE v.k = "nan" -> Zero
      [] v.k = "fin" -> MathTrunc(v)
      [] OTHER -> v

\* Number.prototype.toFixed: a RangeError unless 0 <= digits <= 100; the
\* magnitude is rounded to the nearest multiple of 10^-digits, halves up, and
\* a magnitude of 1e21 or more is written as toString writes it.
toFixed(v, digits) ==
    LET fd == ToIntegerOrInfinity(digits)
    IN  IF ~IsFin(fd) \/ fd.n < 0 \/ fd.n > 100 THEN RangeError
        ELSE IF v.k = "fin"
        THEN Ret((IF v.n < 0 THEN <<"-">> ELSE <<>>)
                 \o DecimalText((Abs(v.n) \div v.d) * Pow10(fd.n)
                                + (2 * (Abs(v.n) % v.d) * Pow10(fd.n) + v.d)
                                  \div (2 * v.d),
                                fd.n))
        ELSE Ret(NumberToString(v)
                 \o (IF fd.n > 0 /\ (v.k = "big" \/ (v.k = "pow" /\ PowExponent(v) < 21))
                     THEN <<".">> \o Repeat(<<"0">>, fd.n) ELSE <<>>))

\* floor(log10(|v|)) for a finite non-zero v.
RECURSIVE Log10Floor(_, _)
Log10Floor(v, e) ==
    IF Lt(MathAbs(v), Whole(1))
    THEN IF Ge(Mul(MathAbs(v), Whole(Pow10(-e))), Whole(1)) THEN e
         ELSE Log10Floor(v, e - 1)
    ELSE IF Lt(MathAbs(v), Whole(Pow10(e + 1))) THEN e
         ELSE Log10Floor(v, e + 1)

\* 10^e as a number, for any integer e.
Power10(e) == IF e >= 0 THEN Whole(Pow10(e)) ELSE Fin(1, Pow10(-e))

\* |v| rounded to sd significant digits (halves up): <<digits as an integer,
\* decimal exponent of the first digit>>.
SignificantDigits(v, sd) ==
    LET e == Log10Floor(v, IF Lt(MathAbs(v), Whole(1)) THEN -1 ELSE 0)
        m == MathRound(Mul(MathAbs(v), Power10(sd - 1 - e))).n
    IN  IF m = Pow10(sd) THEN <<m \div 10, e + 1>> ELSE <<m, e>>

\* The first count digits of 2^53 as an integer, rounded on the next digit.
BigPrefix(count) ==
    LET RECURSIVE value(_)
        value(i) == IF i = 0 THEN 0
                    ELSE 10 * value(i - 1) + (CHOOSE x \in 0..9 :
                                                 Digits[x + 1] = BigDigits[i])
        next == CHOOSE x \in 0..9 : Digits[x + 1] = BigDigits[count + 1]
    IN  value(count) + (IF next >= 5 THEN 1 ELSE 0)

\* Number.prototype.toExponential: a RangeError unless 0 <= digits <= 100.
toExponentialString(v, digits) ==
    LET fd == ToIntegerOrInfinity(digits)
    IN  IF v.k = "nan" \/ v.k = "inf" THEN Ret(NumberToString(v))
        ELSE IF ~IsFin(fd) \/ fd.n < 0 \/ fd.n > 100 THEN RangeError
        ELSE LET f == fd.n
                 me == IF v.k = "big" THEN <<BigPrefix(f + 1), 15>>
                       ELSE IF v.n = 0 THEN <<0, 0>>
                       ELSE SignificantDigits(v, f + 1)
                 mant == FixedWidth(me[1], f + 1)
             IN  Ret((IF v.n < 0 THEN <<"-">> ELSE <<>>)
                     \o <<mant[1]>>
                     \o (IF f = 0 THEN <<>> ELSE <<".">> \o SubSeq(mant, 2, f + 1))
                     \o <<"e">> \o (IF me[2] < 0 THEN <<"-">> ELSE <<"+">>)
                     \o NatToString(Abs(me[2])))

\* Number.prototype.toPrecision followed by Number(): a RangeError unless
\* 1 <= precision <= 100, else the value rounded to that many significant
\* digits.
toPrecisionNumber(v, precision) ==
    LET p == ToIntegerOrInfinity(precision)
    IN  IF v.k = "nan" \/ v.k = "inf" THEN Ret(v)
        ELSE IF ~IsFin(p) \/ p.n < 1 \/ p.n > 100 THEN RangeError
        ELSE IF v.n = 0 THEN Ret(v)
        ELSE LET me == SignificantDigits(v, p.n)
             IN  Ret(Mul(Whole(Sign(v.n) * me[1]), Power10(me[2] - (p.n - 1))))

\* Number.MAX_SAFE_INTEGER is 2^53 - 1: of the values of the model only the
\* "big" ones reach it.
AtLeastMaxSafeInteger(v) == v.k = "big"

(***************************************************************************)
(* The host's Intl.NumberFormat, as far as the core uses it.               *)
(***************************************************************************)
\* U+202F NARROW NO-BREAK SPACE, the grouping separator of fr-FR.
NarrowNoBreakSpace == "U+202F"

\* The locales whose data the model carries.  Every other tag the model hands
\* to the constructor is malformed ("en_US"), for which it throws RangeError.
KnownLocales == {"en-US", "de-DE", "fr-FR"}

\* The 'group' and 'decimal' parts of formatToParts(1234.5).
GroupSeparatorOf(locale) ==
    CASE locale = "en-US" -> <<",">>
      [] locale = "de-DE" -> <<".">>
      [] locale = "fr-FR" -> <<NarrowNoBreakSpace>>

DecimalSeparatorOf(locale) == IF locale = "en-US" THEN <<".">> ELSE <<",">>

\* The grouping of Intl.NumberFormat: the separator goes after every digit
\* that is followed by a positive multiple of 3 digits.
GroupThousands(digits, separator) ==
    LET RECURSIVE from(_)
        from(i) ==
            IF i > Len(digits) THEN <<>>
            ELSE <<digits[i]>>
                 \o (IF i < Len(digits) /\ (Len(digits) - i) % 3 = 0
                     THEN separator ELSE <<>>)
                 \o from(i + 1)
    IN  from(1)

\* The replacement text of String.prototype.replace for the match of
\* /\B(?=(\d{3})+(?!\d))/ after the first i digits: the match is empty, the
\* one capture is the last three digits, and in the replacement $$ is '$',
\* $& the match, $` the text before it, $' the text after it and $1 or $01
\* the capture; any other '$' stands for itself.
GetSubstitution(replacement, digits, i) ==
    LET len == Len(replacement)
        capture == SubSeq(digits, Len(digits) - 2, Len(digits))
        \* <<the text that stands for the pattern at j, the length of the pattern>>
        token(j) ==
            IF replacement[j] # "$" \/ j = len THEN <<<<replacement[j]>>, 1>>
            ELSE CASE replacement[j + 1] = "$" -> <<<<"$">>, 2>>
                   [] replacement[j + 1] = "&" -> <<<<>>, 2>>
                   [] replacement[j + 1] = "`" -> <<SubSeq(digits, 1, i), 2>>
                   [] replacement[j + 1] = "'" ->
                          <<SubSeq(digits, i + 1, Len(digits)), 2>>
                   [] replacement[j + 1] = "1" -> <<capture, 2>>
                   [] replacement[j + 1] = "0" /\ j + 2 <= len
                      /\ replacement[j + 2] = "1" -> <<capture, 3>>
                   [] OTHER -> <<<<"$">>, 1>>
        RECURSIVE scan(_)
        scan(j) ==
            IF j > len THEN <<>>
            ELSE token(j)[1] \o scan(j + token(j)[2])
    IN  scan(1)

\* parts[0].replace(/\B(?=(\d{3})+(?!\d))/g, thousandsSeparator): every
\* position followed by a positive multiple of 3 digits receives the
\* replacement text.
ReplaceGroupBoundaries(digits, replacement) ==
    LET RECURSIVE from(_)
        from(i) ==
            IF i > Len(digits) THEN <<>>
            ELSE <<digits[i]>>
                 \o (IF i < Len(digits) /\ (Len(digits) - i) % 3 = 0
                     THEN GetSubstitution(replacement, digits, i) ELSE <<>>)
                 \o from(i + 1)
    IN  from(1)

\* A fraction-digit option of Intl.NumberFormat: an integer in 0..100 after
\* flooring, anything else is a RangeError.
FractionDigitsOk(v) == IsFin(v) /\ MathFloor(v).n >= 0 /\ MathFloor(v).n <= 100

\* A finite magnitude in the locale's decimal notation with between minFD and
\* maxFD fraction digits.
IntlDecimal(magnitude, locale, minFD, maxFD, useGrouping) ==
    LET fixed == toFixed(magnitude, Whole(maxFD)).val
        intLen == IF maxFD = 0 THEN Len(fixed) ELSE Len(fixed) - maxFD - 1
        intPart == SubSeq(fixed, 1, intLen)
        frac == StripZeros(SubSeq(fixed, intLen + 2, Len(fixed)), minFD)
    IN  (IF useGrouping THEN GroupThousands(intPart, GroupSeparatorOf(locale))
         ELSE intPart)
        \o (IF frac = <<>> THEN <<>> ELSE DecimalSeparatorOf(locale) \o frac)

\* new Intl.NumberFormat(locale, {style: 'currency', ...}).format(value)
IntlFormatCurrency(value, locale, currency, minFD, maxFD, useGrouping) ==
    IF locale \notin KnownLocales THEN RangeError
    ELSE IF Len(currency) # 3 THEN RangeError
    ELSE IF ~FractionDigitsOk(minFD) \/ ~FractionDigitsOk(maxFD) THEN RangeError
    ELSE IF MathFloor(minFD).n > MathFloor(maxFD).n THEN RangeError
    ELSE LET symbol == IF currency = <<"U", "S", "D">> THEN <<"$">> ELSE currency
             number == IntlDecimal(MathAbs(value), locale, MathFloor(minFD).n,
                                   MathFloor(maxFD).n, useGrouping)
         IN  Ret((IF value.n < 0 THEN <<"-">> ELSE <<>>)
                 \o (IF locale = "en-US" THEN symbol \o number
                     ELSE number \o <<" ">> \o symbol))

\* The compact suffixes of the short notation.
CompactUnits == <<<<>>, <<"K">>, <<"M">>, <<"B">>, <<"T">>>>

RECURSIVE CompactIndex(_, _)
CompactIndex(size, index) ==
    IF Ge(size, Whole(1000)) /\ index < Len(CompactUnits)
    THEN CompactIndex(Div(size, Whole(1000)), index + 1)
    ELSE index

\* new Intl.NumberFormat(locale, {notation, maximumFractionDigits}).format(value)
IntlFormatNumber(value, locale, notation, maxFD) ==
    IF locale \notin KnownLocales THEN RangeError
    ELSE IF ~FractionDigitsOk(maxFD) THEN RangeError
    ELSE LET index == IF notation = "compact"
                      THEN CompactIndex(MathAbs(value), 1) ELSE 1
             size == Div(MathAbs(value), Whole(Pow10(3 * (index - 1))))
         IN  Ret((IF value.n < 0 THEN <<"-">> ELSE <<>>)
                 \o IntlDecimal(size, locale, 0, MathFloor(maxFD).n, TRUE)
                 \o CompactUnits[index])

(***************************************************************************)
(* Formatting group.                                                       *)
(***************************************************************************)
\* A string is truthy unless it is empty.
Truthy(s) == s # <<>>

\* s.split('.') of a toFixed result, joined again with the separator.
JoinParts(intPart, fracPart, separator) ==
    IF fracPart = <<>> THEN intPart ELSE intPart \o separator \o fracPart

formatNumber(value, options) ==
    LET decimals == OrDefault(options.decimals, Whole(2))
        thousandsSeparator == OrDefault(options.thousandsSeparator, <<",">>)
        decimalSeparator == OrDefault(options.decimalSeparator, <<".">>)
        fallback == OrDefault(options.fallback, <<"0">>)
    IN  IF ~isValidNumber(value)
        THEN IF Truthy(fallback) THEN Ret(fallback) ELSE NumberFormatError
        ELSE IF ~isValidDecimals(decimals) THEN NumberFormatError
        ELSE IF ~isValidSeparator(thousandsSeparator)
                \/ ~isValidSeparator(decimalSeparator) THEN NumberFormatError
        ELSE IF thousandsSeparator = decimalSeparator THEN NumberFormatError
        ELSE IF AtLeastMaxSafeInteger(MathAbs(value))
        THEN toExponentialString(value, decimals)
        ELSE LET fixed == toFixed(MathAbs(value), decimals).val
                 intLen == IF decimals.n = 0 THEN Len(fixed)
                           ELSE Len(fixed) - decimals.n - 1
                 formattedNumber ==
                     JoinParts(ReplaceGroupBoundaries(SubSeq(fixed, 1, intLen),
                                                      thousandsSeparator),
                               SubSeq(fixed, intLen + 2, Len(fixed)),
                               decimalSeparator)
             IN  Ret(IF Lt(value, Zero) THEN <<"-">> \o formattedNumber
                     ELSE formattedNumber)

\* formatCurrency whose catch block consults the fallback before rethrowing.
formatCurrencyFallbackFirst(value, options) ==
    LET currency == OrDefault(options.currency, <<"U", "S", "D">>)
        locale == OrDefault(options.locale, "en-US")
        fallback == options.fallback
        minimumFractionDigits == OrDefault(options.minimumFractionDigits, Whole(2))
        maximumFractionDigits == OrDefault(options.maximumFractionDigits, Whole(2))
        useGrouping == OrDefault(options.useGrouping, TRUE)
        formatted == IF AtLeastMaxSafeInteger(MathAbs(value)) THEN NumberFormatError
                     ELSE IntlFormatCurrency(value, locale, currency,
                              minimumFractionDigits, maximumFractionDigits,
                              useGrouping)
    IN  IF ~isValidNumber(value)
        THEN IF fallback # {} THEN Ret(OrDefault(fallback, <<>>))
             ELSE NumberFormatError
        ELSE IF Returned(formatted) THEN formatted
        ELSE IF Truthy(OrDefault(fallback, <<>>))
             THEN Ret(OrDefault(fallback, <<>>))
             ELSE NumberFormatError

formatCurrency(value, options) ==
    LET currency == OrDefault(options.currency, <<"U", "S", "D">>)
        locale == OrDefault(options.locale, "en-US")
        fallback == options.fallback
        minimumFractionDigits == OrDefault(options.minimumFractionDigits, Whole(2))
        maximumFractionDigits == OrDefault(options.maximumFractionDigits, Whole(2))
        useGrouping == OrDefault(options.useGrouping, TRUE)
    IN  IF ~isValidNumber(value)
        THEN IF fallback # {} THEN Ret(OrDefault(fallback, <<>>))
             ELSE NumberFormatError
        ELSE IF AtLeastMaxSafeInteger(MathAbs(value))
        THEN NumberFormatError    \* thrown in the try block, rethrown by the catch
        ELSE LET formatted == IntlFormatCurrency(value, locale, currency,
                                  minimumFractionDigits, maximumFractionDigits,
                                  useGrouping)
             IN  IF Returned(formatted) THEN formatted
                 ELSE IF Truthy(OrDefault(fallback, <<>>))
                      THEN Ret(OrDefault(fallback, <<>>))
                      ELSE NumberFormatError

formatPercentage(value, options) ==
    LET decimals == OrDefault(options.decimals, Whole(2))
        fallback == options.fallback
        multiplier == OrDefault(options.multiplier, TRUE)
    IN  IF ~isValidNumber(value)
        THEN IF fallback # {} THEN Ret(OrDefault(fallback, <<>>))
             ELSE NumberFormatError
        ELSE IF ~isValidDecimals(decimals) THEN NumberFormatError
        ELSE IF AtLeastMaxSafeInteger(MathAbs(value))
        THEN NumberFormatError    \* thrown in the try block, rethrown by the catch
        ELSE LET percentValue == IF multiplier THEN Mul(value, Whole(100))
                                 ELSE value
                 fixed == toFixed(percentValue, decimals)
             IN  IF Returned(fixed) THEN Ret(fixed.val \o <<"%">>)
                 ELSE IF Truthy(OrDefault(fallback, <<>>))
                      THEN Ret(OrDefault(fallback, <<>>))
                      ELSE NumberFormatError

ByteUnits == <<<<"B">>, <<"K", "B">>, <<"M", "B">>, <<"G", "B">>, <<"T", "B">>, <<"P", "B">>>>
MetricUnits == <<<<>>, <<"K">>, <<"M">>, <<"B">>, <<"T">>>>

\* while (size >= base && index < units.length - 1) { size /= base; index++ }
\* as <<size, index>>, the index counted from 1.
RECURSIVE ScaleToUnit(_, _, _, _)
ScaleToUnit(size, index, base, units) ==
    IF Ge(size, Whole(base)) /\ index < Len(units)
    THEN ScaleToUnit(Div(size, Whole(base)), index + 1, base, units)
    ELSE <<size, index>>

\* formatWithUnit without its try/catch: a failure of the platform escapes.
formatWithUnitUncaught(value, options) ==
    LET unit == OrDefault(options.unit, "metric")
        locale == OrDefault(options.locale, "en-US")
        decimals == OrDefault(options.decimals, Whole(2))
        fallback == OrDefault(options.fallback, <<"0">>)
        sign == IF Lt(value, Zero) THEN <<"-">> ELSE <<>>
    IN  IF ~isValidNumber(value) THEN Ret(fallback)
        ELSE IF unit = "bytes"
        THEN LET scaled == ScaleToUnit(MathAbs(value), 1, 1024, ByteUnits)
                 fixed == toFixed(scaled[1], decimals)
             IN  IF Raised(fixed) THEN fixed
                 ELSE Ret(sign \o fixed.val \o <<" ">> \o ByteUnits[scaled[2]])
        ELSE IF unit = "metric"
        THEN LET scaled == ScaleToUnit(MathAbs(value), 1, 1000, MetricUnits)
                 fixed == toFixed(scaled[1], decimals)
             IN  IF Raised(fixed) THEN fixed
                 ELSE Ret(sign \o fixed.val \o MetricUnits[scaled[2]])
        ELSE IntlFormatNumber(value, locale,
                 IF unit = "short" THEN "compact" ELSE "standard", decimals)

formatWithUnit(value, options) ==
    LET unit == OrDefault(options.unit, "metric")
        locale == OrDefault(options.locale, "en-US")
        decimals == OrDefault(options.decimals, Whole(2))
        fallback == OrDefault(options.fallback, <<"0">>)
        sign == IF Lt(value, Zero) THEN <<"-">> ELSE <<>>
    IN  IF ~isValidNumber(value) THEN Ret(fallback)
        ELSE IF unit = "bytes"
        THEN LET scaled == ScaleToUnit(MathAbs(value), 1, 1024, ByteUnits)
                 fixed == toFixed(scaled[1], decimals)
             IN  IF Raised(fixed) THEN Ret(fallback)
                 ELSE Ret(sign \o fixed.val \o <<" ">> \o ByteUnits[scaled[2]])
        ELSE IF unit = "metric"
        THEN LET scaled == ScaleToUnit(MathAbs(value), 1, 1000, MetricUnits)
                 fixed == toFixed(scaled[1], decimals)
             IN  IF Raised(fixed) THEN Ret(fallback)
                 ELSE Ret(sign \o fixed.val \o MetricUnits[scaled[2]])
        ELSE LET formatted ==
                     IntlFormatNumber(value, locale,
                         IF unit = "short" THEN "compact" ELSE "standard",
                         decimals)
             IN  IF Raised(formatted) THEN Ret(fallback) ELSE formatted

\* a % m for a non-negative a and a positive integer m (2^53 ends in ...92,
\* n * 1000^x in ...000000).
Remainder(a, m) ==
    IF a.k = "big" THEN Whole((IF m = 10 THEN 2 ELSE 92) % m)
    ELSE IF a.k = "pow" /\ a.d = 1000 THEN Zero
    ELSE Sub(a, Mul(Whole(m), MathFloor(Div(a, Whole(m)))))

OrdinalSuffix(n) ==
    LET s == Remainder(n, 100)
        last == Remainder(n, 10)
    IN  IF Gt(s, Whole(3)) /\ Lt(s, Whole(21)) THEN <<"t", "h">>
        ELSE CASE last = Whole(1) -> <<"s", "t">>
               [] last = Whole(2) -> <<"n", "d">>
               [] last = Whole(3) -> <<"r", "d">>
               [] OTHER -> <<"t", "h">>

\* formatOrdinal without its validity check: the value is stringified whatever
\* it is.
formatOrdinalUnchecked(value, locale) ==
    IF ~isValidNumber(value) THEN Ret(NumberToString(value))
    ELSE Ret(NumberToString(value) \o OrdinalSuffix(MathAbs(value)))

formatOrdinal(value, locale) ==
    IF ~isValidNumber(value) THEN NumberFormatError
    ELSE Ret(NumberToString(value) \o OrdinalSuffix(MathAbs(value)))

WordUnits == <<<<"z", "e", "r", "o">>, <<"o", "n", "e">>, <<"t", "w", "o">>, <<"t", "h", "r", "e", "e">>, <<"f", "o", "u", "r">>, <<"f", "i", "v", "e">>, <<"s", "i", "x">>,
               <<"s", "e", "v", "e", "n">>, <<"e", "i", "g", "h", "t">>, <<"n", "i", "n", "e">>>>
WordTeens == <<<<"t", "e", "n">>, <<"e", "l", "e", "v", "e", "n">>, <<"t", "w", "e", "l", "v", "e">>, <<"t", "h", "i", "r", "t", "e", "e", "n">>, <<"f", "o", "u", "r", "t", "e", "e", "n">>,
               <<"f", "i", "f", "t", "e", "e", "n">>, <<"s", "i", "x", "t", "e", "e", "n">>, <<"s", "e", "v", "e", "n", "t", "e", "e", "n">>, <<"e", "i", "g", "h", "t", "e", "e", "n">>, <<"n", "i", "n", "e", "t", "e", "e", "n">>>>
WordTens == <<<<>>, <<>>, <<"t", "w", "e", "n", "t", "y">>, <<"t", "h", "i", "r", "t", "y">>, <<"f", "o", "r", "t", "y">>, <<"f", "i", "f", "t", "y">>, <<"s", "i", "x", "t", "y">>,
              <<"s", "e", "v", "e", "n", "t", "y">>, <<"e", "i", "g", "h", "t", "y">>, <<"n", "i", "n", "e", "t", "y">>>>

\* table[index]: undefined unless the index is an integer within the table.
ElementAt(table, index) ==
    IF IsInteger(index) /\ index.n >= 0 /\ index.n < Len(table)
    THEN table[index.n + 1] ELSE Undefined

\* `${x}` of a string or of undefined.
Stringify(x) == IF x = Undefined THEN <<"u", "n", "d", "e", "f", "i", "n", "e", "d">> ELSE x

\* toWords on a valid value that is not negative.
toWordsOfMagnitude(value) ==
    IF Lt(value, Whole(10)) THEN ElementAt(WordUnits, value)
    ELSE IF Lt(value, Whole(20)) THEN ElementAt(WordTeens, Sub(value, Whole(10)))
    ELSE IF Lt(value, Whole(100))
    THEN LET digit == Remainder(value, 10)
         IN  Stringify(ElementAt(WordTens, MathFloor(Div(value, Whole(10)))))
             \o (IF digit # Zero
                 THEN <<"-">> \o Stringify(ElementAt(WordUnits, digit))
                 ELSE <<>>)
    ELSE NumberToString(value)

toWords(value, locale) ==
    IF ~isValidNumber(value) THEN NumberFormatError
    ELSE IF Lt(value, Zero)
    THEN Ret(<<"n", "e", "g", "a", "t", "i", "v", "e", " ">> \o Stringify(toWordsOfMagnitude(MathAbs(value))))
    ELSE Ret(toWordsOfMagnitude(value))

\* The integer and fractional digits of Math.abs(value).toString().split('.');
\* the fractional part is Undefined when the string has no point.
SplitDecimal(value) ==
    LET numStr == NumberToString(MathAbs(value))
        dots == {i \in 1..Len(numStr) : numStr[i] = "."}
    IN  IF dots = {} THEN <<numStr, Undefined>>
        ELSE LET dot == CHOOSE i \in dots : TRUE
             IN  <<SubSeq(numStr, 1, dot - 1), SubSeq(numStr, dot + 1, Len(numStr))>>

\* A relative index of String.prototype.slice, clamped to 0..len.
SliceIndex(v, len) ==
    LET k == ToIntegerOrInfinity(v)
    IN  CASE k.k = "inf" -> IF k.n < 0 THEN 0 ELSE len
          [] k.n < 0 -> IF len + k.n < 0 THEN 0 ELSE len + k.n
          [] OTHER -> IF k.n > len THEN len ELSE k.n

\* s.slice(from, to)
Slice(s, from, to) ==
    SubSeq(s, SliceIndex(from, Len(s)) + 1, SliceIndex(to, Len(s)))

\* String.prototype.repeat: a RangeError for a negative or infinite count.
StringRepeat(s, count) ==
    LET n == ToIntegerOrInfinity(count)
    IN  IF ~IsFin(n) \/ n.n < 0 THEN RangeError ELSE Ret(Repeat(s, n.n))

\* KeyCount that reports every options record as empty.
\* Number of own keys of an options record.
KeyCount(options) == Cardinality({f \in DOMAIN options : options[f] # {}})

maskNumber(value, options) ==
    IF ~isValidNumber(value) THEN NumberFormatError
    ELSE
    LET start == OrDefault(options.start, Zero)
        end == OrDefault(options.end, Whole(2))
        mask == OrDefault(options.mask, <<"*">>)
        preserveDecimals == OrDefault(options.preserveDecimals, FALSE)
        parts == SplitDecimal(value)
        intPart == parts[1]
        decPart == parts[2]
        len == Whole(Len(intPart))
        maskedInt ==
            IF decPart # Undefined THEN Ret(Repeat(mask, Len(intPart)))
            ELSE IF start = Zero /\ end = Whole(2) /\ KeyCount(options) = 0
            THEN Ret(Repeat(mask, Len(intPart) - 2)
                     \o Slice(intPart, Whole(-2), len))
            ELSE LET startDigits == Slice(intPart, Zero, start)
                     endDigits == Slice(intPart, Neg(end), len)
                     maskLength == Sub(Sub(len, start), end)
                     middle == StringRepeat(mask, MathMax(Zero, maskLength))
                 IN  IF Raised(middle) THEN middle
                     ELSE Ret(startDigits \o middle.val \o endDigits)
    IN  IF Raised(maskedInt) THEN maskedInt
        ELSE IF decPart # Undefined
        THEN IF preserveDecimals THEN Ret(maskedInt.val \o <<".">> \o decPart)
             ELSE LET decimalMask == IF KeyCount(options) = 0 THEN <<"*">> ELSE <<"#">>
                  IN  Ret(maskedInt.val \o <<".">>
                          \o Repeat(decimalMask, Len(decPart)))
        ELSE Ret(IF Lt(value, Zero) THEN <<"-">> \o maskedInt.val
                 ELSE maskedInt.val)

\* ToLength of a padStart / padEnd target length; lengths no string can have
\* are Infinity here.
ToLength(v) ==
    LET k == ToIntegerOrInfinity(v)
    IN  IF k.k = "inf" \/ k.k = "big" THEN (IF k.n < 0 THEN Zero ELSE PosInf)
        ELSE IF k.n < 0 THEN Zero ELSE k

\* String.prototype.padStart / padEnd with a one-character filler: a
\* RangeError (invalid string length) when the target exceeds every string.
PadStart(s, maxLength, fill) ==
    LET n == ToLength(maxLength)
    IN  IF ~IsFin(n) THEN RangeError ELSE Ret(Repeat(fill, n.n - Len(s)) \o s)

PadEnd(s, maxLength, fill) ==
    LET n == ToLength(maxLength)
    IN  IF ~IsFin(n) THEN RangeError ELSE Ret(s \o Repeat(fill, n.n - Len(s)))

padNumber(value, minIntegers, minDecimals) ==
    IF ~isValidNumber(value) THEN NumberFormatError
    ELSE
    LET parts == SplitDecimal(value)
        intPart == parts[1]
        decPart == parts[2]
        sign == IF Lt(value, Zero) THEN <<"-">> ELSE <<>>
        paddedInt == PadStart(intPart, minIntegers, <<"0">>)
        paddedDec == IF decPart # Undefined THEN PadEnd(decPart, minDecimals, <<"0">>)
                     ELSE IF Gt(minDecimals, Zero)
                     THEN StringRepeat(<<"0">>, IF minDecimals.k = "big" THEN PosInf
                                             ELSE minDecimals)
                     ELSE Ret(<<>>)
    IN  IF Raised(paddedInt) THEN paddedInt
        ELSE IF Raised(paddedDec) THEN paddedDec
        ELSE Ret(sign \o paddedInt.val
                 \o (IF Truthy(paddedDec.val) THEN <<".">> \o paddedDec.val
                     ELSE <<>>))

toExponential(value, precision) ==
    IF ~isValidNumber(value) THEN NumberFormatError
    ELSE IF ~isValidDecimals(precision) THEN NumberFormatError
    ELSE LET converted == toExponentialString(value, precision)
         IN  IF Raised(converted) THEN NumberFormatError ELSE converted

toSignificantDigits(value, significantDigits) ==
    IF ~isValidNumber(value) THEN NumberFormatError
    ELSE IF ~IsInteger(significantDigits) \/ Lt(significantDigits, Whole(1))
    THEN NumberFormatError
    ELSE LET converted == toPrecisionNumber(value, significantDigits)
         IN  IF Raised(converted) THEN NumberFormatError ELSE converted

(***************************************************************************)
(* Numeric transform group.                                                *)
(***************************************************************************)
\* clamp applying the lower bound only.
clampLowerOnly(value, min, max) ==
    IF ~isValidNumber(value) \/ ~isValidNumber(min) \/ ~isValidNumber(max)
    THEN NumberFormatError
    ELSE Ret(MathMax(value, min))

\* clamp without its validity check.
clampUnchecked(value, min, max) == Ret(MathMin(MathMax(value, min), max))

clamp(value, min, max) ==
    IF ~isValidNumber(value) \/ ~isValidNumber(min) \/ ~isValidNumber(max)
    THEN NumberFormatError
    ELSE Ret(MathMin(MathMax(value, min), max))

roundToPrecision(value, precision, mode) ==
    IF ~isValidNumber(value) THEN NumberFormatError
    ELSE IF ~isValidDecimals(precision) THEN NumberFormatError
    ELSE LET multiplier == Whole(Pow10(precision.n))
             scaled == Mul(value, multiplier)
         IN  CASE mode = "ceil" -> Ret(Div(MathCeil(scaled), multiplier))
               [] mode = "floor" -> Ret(Div(MathFloor(scaled), multiplier))
               [] mode = "trunc" -> Ret(Div(MathTrunc(scaled), multiplier))
               [] OTHER -> Ret(Div(MathRound(scaled), multiplier))

(***************************************************************************)
(* Comparison group and the remaining transforms.                          *)
(***************************************************************************)
isWithinRange(value, options) ==
    LET min == OrDefault(options.min, NegInf)
        max == OrDefault(options.max, PosInf)
        inclusive == OrDefault(options.inclusive, TRUE)
    IN  IF ~isValidNumber(value) \/ ~isValidNumber(min) \/ ~isValidNumber(max)
        THEN NumberFormatError
        ELSE IF Gt(min, max) THEN NumberFormatError
        ELSE Ret(isInRange(value, min, max, inclusive))

\* draw is the value of Math.random(), a number in [0, 1).
random(min, max, decimals, draw) ==
    IF ~isValidNumber(min) \/ ~isValidNumber(max) THEN NumberFormatError
    ELSE IF ~isValidDecimals(decimals) THEN NumberFormatError
    ELSE IF Gt(min, max) THEN NumberFormatError
    ELSE LET rand == Add(Mul(draw, Sub(max, min)), min)
         IN  roundToPrecision(rand, decimals, "round")

isApproximatelyEqual(a, b, precision) ==
    IF ~isValidNumber(a) \/ ~isValidNumber(b) THEN NumberFormatError
    ELSE LET absolute == OrDefault(precision.absolute, Tiny)
             relative == precision.relative
             diff == MathAbs(Sub(a, b))
         IN  IF relative # {}
             THEN LET avg == Div(MathAbs(Add(a, b)), Whole(2))
                  IN  IF avg = Zero THEN Ret(Lt(diff, absolute))
                      ELSE Ret(Lt(Div(diff, avg), OrDefault(relative, Zero)))
             ELSE Ret(Lt(diff, absolute))

ComparisonOperators == {"=", "!=", ">", ">=", "<", "<="}

compareNumbers(a, b, operator) ==
    IF ~isValidNumber(a) \/ ~isValidNumber(b) THEN NumberFormatError
    ELSE CASE operator = "=" -> Ret(Eq(a, b))
           [] operator = "!=" -> Ret(~Eq(a, b))
           [] operator = ">" -> Ret(Gt(a, b))
           [] operator = ">=" -> Ret(Ge(a, b))
           [] operator = "<" -> Ret(Lt(a, b))
           [] operator = "<=" -> Ret(Le(a, b))
           [] OTHER -> NumberFormatError

normalize(value, min, max) ==
    IF ~isValidNumber(value) \/ ~isValidNumber(min) \/ ~isValidNumber(max)
    THEN NumberFormatError
    ELSE IF Ge(min, max) THEN NumberFormatError
    ELSE Ret(Div(Sub(value, min), Sub(max, min)))

\* interpolate refusing the factor 1.
interpolateBelowOne(start, end, factor) ==
    IF ~isValidNumber(start) \/ ~isValidNumber(end) \/ ~isValidNumber(factor)
    THEN NumberFormatError
    ELSE IF Lt(factor, Zero) \/ Ge(factor, Whole(1)) THEN NumberFormatError
    ELSE Ret(Add(start, Mul(Sub(end, start), factor)))

interpolate(start, end, factor) ==
    IF ~isValidNumber(start) \/ ~isValidNumber(end) \/ ~isValidNumber(factor)
    THEN NumberFormatError
    ELSE IF Lt(factor, Zero) \/ Gt(factor, Whole(1)) THEN NumberFormatError
    ELSE Ret(Add(start, Mul(Sub(end, start), factor)))

getOrderOfMagnitude(value) ==
    IF ~isValidNumber(value) \/ value = Zero THEN NumberFormatError
    ELSE Ret(Whole(IF value.k = "big" THEN 15
                   ELSE Log10Floor(value,
                            IF Lt(MathAbs(value), Whole(1)) THEN -1 ELSE 0)))

(***************************************************************************)
(* Parsing group.                                                          *)
(***************************************************************************)
\* The value null of parseNumber.
Null == [k |-> "null", n |-> 0, d |-> 1]

IsWhitespace(c) == c = " " \/ c = NarrowNoBreakSpace

\* s.replace(/\s/g, ''): every whitespace character removed.
StripWhitespace(s) == SelectSeq(s, LAMBDA c : ~IsWhitespace(c))

\* The text with the group separators left in place.
RemoveNone(s, c) == s

\* s.replace(new RegExp('\\' + c, 'g'), ''): every occurrence of c removed.
RemoveAll(s, c) == SelectSeq(s, LAMBDA x : x # c)

\* s.replace(c, '.'): the first occurrence of the one-character string c.
ReplaceFirst(s, c, by) ==
    LET hits == {i \in 1..Len(s) : s[i] = c}
    IN  IF hits = {} THEN s
        ELSE LET first == CHOOSE i \in hits : \A j \in hits : i <= j
             IN  [s EXCEPT ![first] = by]

\* /^[-+]?[\d.]*$/: the pattern without the limit of one period.
MatchesNumberPatternAnyPeriods(s) ==
    LET body == IF s # <<>> /\ s[1] \in {"-", "+"} THEN Tail(s) ELSE s
    IN  \A i \in 1..Len(body) : body[i] \in DigitChars \cup {"."}

\* /^[-+]?\d*\.?\d*$/
MatchesNumberPattern(s) ==
    LET body == IF s # <<>> /\ s[1] \in {"-", "+"} THEN Tail(s) ELSE s
        dots == {i \in 1..Len(body) : body[i] = "."}
    IN  /\ \A i \in 1..Len(body) : body[i] \in DigitChars \cup {"."}
        /\ Cardinality(dots) <= 1

DigitValue(c) == CHOOSE x \in 0..9 : Digits[x + 1] = c

RECURSIVE DigitsToNat(_)
DigitsToNat(s) ==
    IF s = <<>> THEN 0
    ELSE 10 * DigitsToNat(SubSeq(s, 1, Len(s) - 1)) + DigitValue(s[Len(s)])

\* Number(s) for a string matching the pattern: NaN when it has no digit.
StringToNumber(s) ==
    LET negative == s # <<>> /\ s[1] = "-"
        body == IF s # <<>> /\ s[1] \in {"-", "+"} THEN Tail(s) ELSE s
        digits == SelectSeq(body, LAMBDA c : c # ".")
        dots == {i \in 1..Len(body) : body[i] = "."}
        fracLen == IF dots = {} THEN 0
                   ELSE Len(body) - (CHOOSE i \in dots : TRUE)
    IN  IF digits = <<>> THEN NaN
        ELSE Fin((IF negative THEN -1 ELSE 1) * DigitsToNat(digits),
                 Pow10(fracLen))

\* value is [t, s]: t = "string" with the characters s, or the type of a
\* value that is not a string.
parseNumber(value, locale) ==
    IF value.t # "string" \/ StripWhitespace(value.s) = <<>>
    THEN Ret(Null)
    ELSE IF locale \notin KnownLocales THEN Ret(Null)   \* RangeError, caught
    ELSE LET groupSeparator == GroupSeparatorOf(locale)[1]
             decimalSeparator == DecimalSeparatorOf(locale)[1]
             stripped == RemoveAll(StripWhitespace(value.s), groupSeparator)
             normalized == ReplaceFirst(stripped, decimalSeparator, ".")
         IN  IF normalized \in {<<>>, <<".">>, <<"-">>, <<"+">>} THEN Ret(Null)
             ELSE IF ~MatchesNumberPattern(normalized) THEN Ret(Null)
             ELSE LET parsed == StringToNumber(normalized)
                  IN  IF IsFin(parsed) THEN Ret(parsed) ELSE Ret(Null)

(***************************************************************************)
(* Statistics group.                                                       *)
(***************************************************************************)
\* numbers.reduce((acc, curr) => ..., 0) from element i on.
RECURSIVE sumReduce(_, _, _, _)
sumReduce(numbers, ignoreInvalid, i, acc) ==
    IF i > Len(numbers) THEN Ret(acc)
    ELSE IF ~isValidNumber(numbers[i])
         THEN IF ignoreInvalid
              THEN sumReduce(numbers, ignoreInvalid, i + 1, acc)
              ELSE NumberFormatError
         ELSE sumReduce(numbers, ignoreInvalid, i + 1, Add(acc, numbers[i]))

\* sum whose reduction starts from 1 instead of 0.
sumFromOne(numbers, ignoreInvalid) == sumReduce(numbers, ignoreInvalid, 1, Whole(1))

sum(numbers, ignoreInvalid) == sumReduce(numbers, ignoreInvalid, 1, Zero)

\* validNumbers of average, median and mode.
validNumbersOf(numbers, ignoreInvalid) ==
    IF ignoreInvalid THEN SelectSeq(numbers, isValidNumber) ELSE numbers

\* average dividing by the length of the input instead of the count of the
\* valid entries.
averageOverAllEntries(numbers, ignoreInvalid) ==
    LET validNumbers == validNumbersOf(numbers, ignoreInvalid)
    IN  IF ~ignoreInvalid /\ Len(validNumbers) # Len(numbers)
        THEN NumberFormatError
        ELSE IF Len(validNumbers) = 0 THEN Ret(Zero)
        ELSE LET total == sum(validNumbers, ignoreInvalid)
             IN  IF Raised(total) THEN total
                 ELSE Ret(Div(total.val, Whole(Len(numbers))))

average(numbers, ignoreInvalid) ==
    LET validNumbers == validNumbersOf(numbers, ignoreInvalid)
    IN  IF ~ignoreInvalid /\ Len(validNumbers) # Len(numbers)
        THEN NumberFormatError
        ELSE IF Len(validNumbers) = 0 THEN Ret(Zero)
        ELSE LET total == sum(validNumbers, ignoreInvalid)
             IN  IF Raised(total) THEN total
                 ELSE Ret(Div(total.val, Whole(Len(validNumbers))))

\* The orders [...a].sort((a, b) => a - b) can leave the array in.  Without a
\* NaN the comparator is a consistent ordering and the result is the
\* ascending array; a - b is NaN as soon as one operand is NaN, the comparator
\* is then inconsistent and the order is implementation-defined.
SortOutcomes(a) ==
    LET perms == {[i \in 1..Len(a) |-> a[p[i]]] : p \in Permutations(1..Len(a))}
    IN  IF \E i \in 1..Len(a) : IsNaN(a[i]) THEN perms
        ELSE {t \in perms : \A i \in 1..Len(t) : \A j \in 1..Len(t) :
                                i < j => ~Lt(t[j], t[i])}

\* medianOfSorted taking the upper middle entry whatever the length.
medianOfSortedUpper(sorted, precision) ==
    roundToPrecision(sorted[Len(sorted) \div 2 + 1], precision, "round")

medianOfSorted(sorted, precision) ==
    LET mid == Len(sorted) \div 2
    IN  IF Len(sorted) % 2 = 0
        THEN roundToPrecision(Div(Add(sorted[mid], sorted[mid + 1]), Whole(2)),
                              precision, "round")
        ELSE roundToPrecision(sorted[mid + 1], precision, "round")

\* The set of outcomes of median(numbers, options): one per order the sort
\* can produce.
median(numbers, options) ==
    LET ignoreInvalid == OrDefault(options.ignoreInvalid, FALSE)
        precision == OrDefault(options.precision, Whole(2))
        validNumbers == validNumbersOf(numbers, ignoreInvalid)
    IN  IF ~ignoreInvalid /\ Len(validNumbers) # Len(numbers)
        THEN {NumberFormatError}
        ELSE IF Len(validNumbers) = 0 THEN {Ret(Zero)}
        ELSE {medianOfSorted(sorted, precision) :
                sorted \in SortOutcomes(validNumbers)}

\* The ascending array of the members of a set of valid numbers.
RECURSIVE SortedSeqOf(_)
SortedSeqOf(S) ==
    IF S = {} THEN <<>>
    ELSE LET least == CHOOSE x \in S : \A y \in S : ~Lt(y, x)
         IN  <<least>> \o SortedSeqOf(S \ {least})

\* mode keeping only the least of the values tied for the maximum count.
modeLeastOnly(numbers, options) ==
    LET ignoreInvalid == OrDefault(options.ignoreInvalid, FALSE)
        precision == OrDefault(options.precision, Whole(2))
        validNumbers == validNumbersOf(numbers, ignoreInvalid)
        idx == 1..Len(validNumbers)
    IN  IF ~ignoreInvalid /\ Len(validNumbers) # Len(numbers)
        THEN NumberFormatError
        ELSE IF Len(validNumbers) = 0 THEN Ret(<<>>)
        ELSE IF \E i \in idx :
                   Raised(roundToPrecision(validNumbers[i], precision, "round"))
        THEN NumberFormatError
        ELSE LET rounded == [i \in idx |->
                      roundToPrecision(validNumbers[i], precision, "round").val]
                 keys == {rounded[i] : i \in idx}
                 frequency == [key \in keys |->
                                  Cardinality({i \in idx : rounded[i] = key})]
                 maxFreq == CHOOSE f \in {frequency[key] : key \in keys} :
                                \A key \in keys : frequency[key] <= f
             IN  Ret(SubSeq(SortedSeqOf({key \in keys : frequency[key] = maxFreq}),
                            1, 1))

mode(numbers, options) ==
    LET ignoreInvalid == OrDefault(options.ignoreInvalid, FALSE)
        precision == OrDefault(options.precision, Whole(2))
        validNumbers == validNumbersOf(numbers, ignoreInvalid)
        idx == 1..Len(validNumbers)
    IN  IF ~ignoreInvalid /\ Len(validNumbers) # Len(numbers)
        THEN NumberFormatError
        ELSE IF Len(validNumbers) = 0 THEN Ret(<<>>)
        ELSE IF \E i \in idx :
                   Raised(roundToPrecision(validNumbers[i], precision, "round"))
        THEN NumberFormatError
        ELSE LET rounded == [i \in idx |->
                      roundToPrecision(validNumbers[i], precision, "round").val]
                 keys == {rounded[i] : i \in idx}
                 frequency == [key \in keys |->
                                  Cardinality({i \in idx : rounded[i] = key})]
                 maxFreq == CHOOSE f \in {frequency[key] : key \in keys} :
                                \A key \in keys : frequency[key] <= f
             IN  Ret(SortedSeqOf({key \in keys : frequency[key] = maxFreq}))

(***************************************************************************)
(* Inputs of the model.                                                    *)
(***************************************************************************)
NonFinite == {NaN, PosInf, NegInf}
Flags == {{}, {TRUE}, {FALSE}}
Optional(S) == {{}} \cup {{x} : x \in S}

\* Statistics.
StatValues == NonFinite \cup {Whole(1), Fin(5, 4), Fin(-3, 2)}
StatArrays == UNION {[1..n -> StatValues] : n \in 0..MaxLen}
StatPrecisions == Optional({Whole(p) : p \in (-1)..(MaxPrecision - 1)})
StatOptions == [ignoreInvalid : Flags, precision : StatPrecisions]

\* Transforms and comparisons.
Operands == NonFinite \cup {Zero, Whole(1), Whole(-2), Fin(1, 2), Fin(3, 2)}
RoundValues == NonFinite \cup {Whole(3), Fin(5, 4), Fin(-5, 4), Fin(3141, 1000)}
DecimalsArgs == {Whole(p) : p \in (-1)..MaxPrecision}
                    \cup {Whole(21), Fin(1, 2), NaN, PosInf}
RoundingModes == {"ceil", "floor", "round", "trunc"}
Tolerances == {Fin(1, 1000), Fin(1, 2), Whole(1), Whole(3)}
RandomDraws == {Zero, Fin(1, 2), Fin(99, 100)}
RandomBounds == Operands \cup {Fin(2, 5), Fin(3, 5)}

\* Formatters.
Fallbacks == {{}, {<<>>}, {<<"N", "/", "A">>}}
FormatValues == NonFinite \cup {Big, NegBig, Zero, Whole(1000000),
                                Fin(123456, 100), Fin(-123456, 100), Fin(5, 1000)}
NumberFormatOptions ==
    [decimals : Optional(DecimalsArgs \ {NaN, PosInf}),
     thousandsSeparator : {{}, {<<".">>}, {<<" ">>}, {<<".", ".", ".", ".">>},
                           {<<"$", "$">>}, {<<"$", "'">>}},
     decimalSeparator : {{}, {<<",">>}},
     fallback : Fallbacks]
CurrencyFormatOptions ==
    [currency : {{}, {<<"E", "U", "R">>}, {<<"X", "X">>}},
     locale : {{}, {"de-DE"}, {"en_US"}},
     fallback : Fallbacks,
     minimumFractionDigits : {{}, {Zero}},
     maximumFractionDigits : {{}, {Zero}, {Whole(-1)}},
     useGrouping : {{}, {FALSE}}]
PercentValues == NonFinite \cup {Big, NegBig, Zero, Whole(1234), Fin(1, 2),
                                 Fin(-32, 125), Fin(2469, 200)}
PercentageFormatOptions ==
    [decimals : Optional(DecimalsArgs \ {NaN, PosInf}),
     fallback : Fallbacks,
     multiplier : {{}, {FALSE}}]
UnitValues == NonFinite \cup {Zero, Whole(999), Whole(1024), Whole(-1500),
                              Whole(999999), Whole(1048575), Whole(1048576),
                              Whole(1234567)}
\* Values beyond the last unit of one ladder: 2^61 for bytes, 5e15 and 1e36
\* for metric; and 2^30 and 2e9, in the fourth unit of theirs.
BytesValues == {Scaled(2, 1024, 6), Scaled(-2, 1024, 6), Whole(1073741824)}
MetricValues == {Scaled(5, 1000, 5), Scaled(-5, 1000, 5), Scaled(1, 1000, 12),
                 Whole(2000000000)}
LadderCalls ==
    {c \in (BytesValues \cup MetricValues) \X {"bytes", "metric"} :
        (c[2] = "bytes") = (c[1] \in BytesValues)}
NumberUnitOptions ==
    [unit : Optional({"bytes", "metric", "short", "long"}),
     locale : {{}, {"en_US"}},
     decimals : Optional({Whole(p) : p \in (-1)..MaxPrecision}
                         \cup {Whole(101), Fin(3, 2), NaN, PosInf}),
     fallback : Fallbacks]
MaxWord == 120       \* largest magnitude spelled or given an ordinal
WordValues == NonFinite \cup {Big, NegBig}
                  \cup {Whole(i) : i \in (-MaxWord)..MaxWord}
                  \cup {Fin(3, 2), Fin(-3, 2), Fin(21, 2), Fin(51, 2), Fin(2001, 2)}
Locales == {{}, {"en-US"}, {"fr-FR"}}
MaskValues == NonFinite \cup {Big, Whole(5), Whole(12), Whole(1234567),
                              Whole(-1234567), Fin(123456, 100), Fin(-123456, 100),
                              Fin(1, 10000000)}
MaskCounts == Optional({Zero, Whole(2), Whole(9), Whole(-1), NaN, NegInf})
NumberMaskOptions ==
    [start : MaskCounts, end : MaskCounts,
     mask : {{}, {<<"#">>}, {<<>>}, {<<"x", "y">>}},
     preserveDecimals : Flags]
PadValues == NonFinite \cup {Big, Whole(5), Whole(-5), Fin(52, 10), Fin(-52, 10),
                             Whole(123), Fin(1, 10000000)}
PadWidths == Optional({Whole(p) : p \in (-1)..3} \cup {Fin(3, 2), NaN, PosInf, Big})
ConvertValues == NonFinite \cup {Zero, Whole(-15), Fin(1234567, 1000),
                                 Fin(123, 100000)}
DigitCounts == {Whole(p) : p \in (-1)..(MaxPrecision + 1)}
                   \cup {Whole(101), Fin(3, 2), NaN, PosInf}

\* Parsing.
MaxText == 4         \* longest string handed to parseNumber
Alphabet == {"1", "2", ".", ",", " ", "-", "+", "a"}
Texts == UNION {[1..n -> Alphabet] : n \in 0..MaxText}
ParseInputs == {[t |-> "string", s |-> s] : s \in Texts}
                   \cup {[t |-> "number", s |-> <<>>], [t |-> "undefined", s |-> <<>>]}
ParseLocales == Optional(KnownLocales \cup {"en_US"})

(***************************************************************************)
(* One call of a core function: Init draws the function and its            *)
(* arguments, the function's action computes the outcome.                  *)
(***************************************************************************)
InitFormatters ==
    \/ \E value \in FormatValues \cup {Fin(-1, 1000)},
             options \in NumberFormatOptions :
          call = [fn |-> "formatNumber", value |-> value, options |-> options]
    \/ \E value \in FormatValues, options \in CurrencyFormatOptions :
          call = [fn |-> "formatCurrency", value |-> value, options |-> options]
    \/ \E value \in PercentValues, options \in PercentageFormatOptions :
          call = [fn |-> "formatPercentage", value |-> value, options |-> options]
    \/ \E value \in UnitValues, options \in NumberUnitOptions :
          call = [fn |-> "formatWithUnit", value |-> value, options |-> options]
    \/ \E c \in LadderCalls, options \in NumberUnitOptions :
          call = [fn |-> "formatWithUnit", value |-> c[1],
                  options |-> [options EXCEPT !.unit = {c[2]}]]
    \/ \E value \in WordValues \cup {Scaled(1, 1000, 7)}, locale \in Locales :
          call = [fn |-> "formatOrdinal", value |-> value, locale |-> locale]
    \/ \E value \in WordValues \cup {Scaled(1, 1000, 7)}, locale \in Locales :
          call = [fn |-> "toWords", value |-> value, locale |-> locale]
    \/ \E value \in MaskValues, options \in NumberMaskOptions :
          call = [fn |-> "maskNumber", value |-> value, options |-> options]
    \/ \E value \in PadValues, minIntegers \in PadWidths, minDecimals \in PadWidths :
          call = [fn |-> "padNumber", value |-> value,
                  minIntegers |-> minIntegers, minDecimals |-> minDecimals]
    \/ \E value \in ConvertValues \cup {Big}, precision \in Optional(DecimalsArgs) :
          call = [fn |-> "toExponential", value |-> value, precision |-> precision]
    \/ \E value \in ConvertValues, significantDigits \in DigitCounts :
          call = [fn |-> "toSignificantDigits", value |-> value,
                  significantDigits |-> significantDigits]
    \/ \E value \in ConvertValues \cup {Big} :
          call = [fn |-> "getOrderOfMagnitude", value |-> value]

InitTransforms ==
    \/ \E value \in Operands, min \in Operands, max \in Operands :
          call = [fn |-> "clamp", value |-> value, min |-> min, max |-> max]
    \/ \E value \in RoundValues \cup {Scaled(1, 10, 308), Scaled(-1, 10, 308)},
          precision \in Optional(DecimalsArgs),
          rounding \in Optional(RoundingModes) :
          call = [fn |-> "roundToPrecision", value |-> value,
                  precision |-> precision, mode |-> rounding]
    \/ \E value \in Operands, min \in Operands, max \in Operands :
          call = [fn |-> "normalize", value |-> value, min |-> min, max |-> max]
    \/ \E start \in Operands, end \in Operands, factor \in Operands :
          call = [fn |-> "interpolate", start |-> start, end |-> end,
                  factor |-> factor]
    \/ \E min \in RandomBounds, max \in RandomBounds,
          decimals \in Optional({Whole(-1), Zero, Whole(1), NaN}) :
          call = [fn |-> "random", min |-> min, max |-> max, decimals |-> decimals]

InitComparisons ==
    \/ \E a \in Operands, b \in Operands,
          operator \in ComparisonOperators \cup {"invalid"} :
          call = [fn |-> "compareNumbers", a |-> a, b |-> b, operator |-> operator]
    \/ \E a \in Operands \cup {Whole(-1)}, b \in Operands \cup {Whole(-1)},
          precision \in [absolute : Optional(Tolerances),
                         relative : Optional(Tolerances)] :
          call = [fn |-> "isApproximatelyEqual", a |-> a, b |-> b,
                  precision |-> precision]
    \/ \E value \in Operands,
          options \in [min : Optional(Operands), max : Optional(Operands),
                       inclusive : Flags] :
          call = [fn |-> "isWithinRange", value |-> value, options |-> options]

InitStatistics ==
    \/ \E numbers \in StatArrays, ignoreInvalid \in Flags :
          call = [fn |-> "sum", numbers |-> numbers, ignoreInvalid |-> ignoreInvalid]
    \/ \E numbers \in StatArrays, ignoreInvalid \in Flags :
          call = [fn |-> "average", numbers |-> numbers,
                  ignoreInvalid |-> ignoreInvalid]
    \/ \E numbers \in StatArrays, options \in StatOptions :
          call = [fn |-> "median", numbers |-> numbers, options |-> options]
    \/ \E numbers \in StatArrays, options \in StatOptions :
          call = [fn |-> "mode", numbers |-> numbers, options |-> options]

InitParsing ==
    \E value \in ParseInputs, locale \in ParseLocales :
        call = [fn |-> "parseNumber", value |-> value, locale |-> locale]

\* The arguments of the call come from the caller, not from an earlier call.
NoCall == [fn |-> "none"]

Init ==
    /\ res = Pending
    /\ fed = NoCall
    /\ \/ InitFormatters
       \/ InitTransforms
       \/ InitComparisons
       \/ InitStatistics
       \/ InitParsing

Called(fn) == call.fn = fn /\ res = Pending

Outcome(r) == res' = r /\ UNCHANGED <<call, fed>>

FormatNumber ==
    Called("formatNumber") /\ Outcome(formatNumber(call.value, call.options))

FormatCurrency ==
    Called("formatCurrency") /\ Outcome(formatCurrency(call.value, call.options))

FormatPercentage ==
    Called("formatPercentage")
    /\ Outcome(formatPercentage(call.value, call.options))

FormatWithUnit ==
    Called("formatWithUnit") /\ Outcome(formatWithUnit(call.value, call.options))

FormatOrdinal ==
    Called("formatOrdinal")
    /\ Outcome(formatOrdinal(call.value, OrDefault(call.locale, "en-US")))

ToWords ==
    Called("toWords")
    /\ Outcome(toWords(call.value, OrDefault(call.locale, "en-US")))

MaskNumber ==
    Called("maskNumber") /\ Outcome(maskNumber(call.value, call.options))

PadNumber ==
    Called("padNumber")
    /\ Outcome(padNumber(call.value, OrDefault(call.minIntegers, Whole(1)),
                         OrDefault(call.minDecimals, Zero)))

ToExponential ==
    Called("toExponential")
    /\ Outcome(toExponential(call.value, OrDefault(call.precision, Whole(2))))

ToSignificantDigits ==
    Called("toSignificantDigits")
    /\ Outcome(toSignificantDigits(call.value, call.significantDigits))

GetOrderOfMagnitude ==
    Called("getOrderOfMagnitude") /\ Outcome(getOrderOfMagnitude(call.value))

Clamp ==
    Called("clamp") /\ Outcome(clamp(call.value, call.min, call.max))

RoundToPrecision ==
    Called("roundToPrecision")
    /\ Outcome(roundToPrecision(call.value, OrDefault(call.precision, Zero),
                                OrDefault(call.mode, "round")))

Normalize ==
    Called("normalize") /\ Outcome(normalize(call.value, call.min, call.max))

Interpolate ==
    Called("interpolate")
    /\ Outcome(interpolate(call.start, call.end, call.factor))

Random ==
    /\ Called("random")
    /\ \E draw \in RandomDraws :
          Outcome(random(call.min, call.max, OrDefault(call.decimals, Zero), draw))

CompareNumbers ==
    Called("compareNumbers")
    /\ Outcome(compareNumbers(call.a, call.b, call.operator))

IsApproximatelyEqual ==
    Called("isApproximatelyEqual")
    /\ Outcome(isApproximatelyEqual(call.a, call.b, call.precision))

IsWithinRange ==
    Called("isWithinRange") /\ Outcome(isWithinRange(call.value, call.options))

Sum ==
    Called("sum")
    /\ Outcome(sum(call.numbers, OrDefault(call.ignoreInvalid, FALSE)))

Average ==
    Called("average")
    /\ Outcome(average(call.numbers, OrDefault(call.ignoreInvalid, FALSE)))

Median ==
    /\ Called("median")
    /\ \E r \in median(call.numbers, call.options) : Outcome(r)

Mode ==
    Called("mode") /\ Outcome(mode(call.numbers, call.options))

ParseNumber ==
    Called("parseNumber")
    /\ Outcome(parseNumber(call.value, OrDefault(call.locale, "en-US")))

\* interpolate(min, max, normalize(value, min, max)): the normalized value is
\* the factor of an interpolation between the same bounds.
InterpolateNormalized ==
    /\ call.fn = "normalize" /\ Returned(res) /\ fed = NoCall
    /\ call' = [fn |-> "interpolate", start |-> call.min, end |-> call.max,
                factor |-> res.val]
    /\ res' = Pending
    /\ fed' = call

\* parseNumber(formatNumber(value, options)) for options that leave both
\* separators at their defaults: the formatted text is parsed in the default
\* locale.
ParseFormatted ==
    /\ call.fn = "formatNumber" /\ Returned(res) /\ fed = NoCall
    /\ call.options.thousandsSeparator = {}
    /\ call.options.decimalSeparator = {}
    /\ call' = [fn |-> "parseNumber", value |-> [t |-> "string", s |-> res.val],
                locale |-> {}]
    /\ res' = Pending
    /\ fed' = call

\* roundToPrecision(roundToPrecision(value, precision, mode), precision,
\* mode): the rounded value is rounded again at the same precision and mode.
RoundAgain ==
    /\ call.fn = "roundToPrecision" /\ Returned(res) /\ fed = NoCall
    /\ call' = [call EXCEPT !.value = res.val]
    /\ res' = Pending
    /\ fed' = call

Next ==
    \/ InterpolateNormalized
    \/ RoundAgain
    \/ ParseFormatted
    \/ FormatNumber
    \/ FormatCurrency
    \/ FormatPercentage
    \/ FormatWithUnit
    \/ FormatOrdinal
    \/ ToWords
    \/ MaskNumber
    \/ PadNumber
    \/ ToExponential
    \/ ToSignificantDigits
    \/ GetOrderOfMagnitude
    \/ Clamp
    \/ RoundToPrecision
    \/ Normalize
    \/ Interpolate
    \/ Random
    \/ CompareNumbers
    \/ IsApproximatelyEqual
    \/ IsWithinRange
    \/ Sum
    \/ Average
    \/ Median
    \/ Mode
    \/ ParseNumber

Spec == Init /\ [][Next]_vars

(***************************************************************************)
(* Properties of the error-handling contract.                              *)
(***************************************************************************)
Finished(fns) == call.fn \in fns /\ res # Pending

Statistics == {"sum", "average", "median", "mode"}

\* The ignoreInvalid setting of the statistics call in progress.
IgnoreInvalid ==
    IF call.fn \in {"median", "mode"}
    THEN OrDefault(call.options.ignoreInvalid, FALSE)
    ELSE OrDefault(call.ignoreInvalid, FALSE)

\* C1 (as stated): formatNumber, called with a non-finite value and no
\* fallback option, raises NumberFormatError; it returns a fallback string
\* only when the caller configured one.
C1_FormatNumberRaisesWithoutFallback ==
    (Finished({"formatNumber"}) /\ call.value \in NonFinite
        /\ call.options.fallback = {})
    => res = NumberFormatError

\* formatNumber(NaN) with no options returns "0", the default of fallback.
C1_ReturnedDefaultFallback ==
    /\ Finished({"formatNumber"})
    /\ call.value = NaN
    /\ call.options.fallback = {}
    /\ res = Ret(<<"0">>)

C2_NonFiniteCall ==
    /\ Finished({"formatOrdinal", "toWords", "maskNumber", "padNumber"})
    /\ call.value \in NonFinite

\* C2 (amended): formatOrdinal, toWords, maskNumber and padNumber raise
\* NumberFormatError for a non-finite value (NaN, +Infinity, -Infinity);
\* none of them returns a string for it.
C2_NonFiniteValueRaises == C2_NonFiniteCall => res = NumberFormatError

\* One of the four has been called with a non-finite value and has raised.
C2_RaisedOnNonFinite == C2_NonFiniteCall /\ Raised(res)

\* C2 (as stated): the four never raise for a non-finite value, each returns
\* the stringified value.
C2_NonFiniteValueStringified ==
    C2_NonFiniteCall => res = Ret(NumberToString(call.value))

\* C3 (as stated): with ignoreInvalid false, sum, average, median and mode
\* raise NumberFormatError whenever the sequence holds a non-finite entry,
\* wherever it stands.
C3_InvalidEntryRaises ==
    (Finished(Statistics) /\ ~IgnoreInvalid
        /\ \E i \in 1..Len(call.numbers) : call.numbers[i] \in NonFinite)
    => res = NumberFormatError

\* median([1, 1.25, Infinity]) returns: only the middle of the sorted array
\* is validated.
C3_MedianReturnedDespiteInfinity ==
    /\ Finished({"median"})
    /\ ~IgnoreInvalid
    /\ call.numbers = <<Whole(1), Fin(5, 4), PosInf>>
    /\ call.options.precision = {}
    /\ res = Ret(Fin(5, 4))

\* C4 (as stated): every error that escapes a core operation is a
\* NumberFormatError.
C4_OnlyNumberFormatError == Raised(res) => res.err = "NumberFormatError"

\* padNumber(5, 1, Infinity) ends in the RangeError of '0'.repeat(Infinity).
C4_PadNumberRangeError ==
    /\ Finished({"padNumber"})
    /\ call.value = Whole(5)
    /\ call.minIntegers = {Whole(1)}
    /\ call.minDecimals = {PosInf}
    /\ res = RangeError

C5_Call == Finished({"formatCurrency", "formatPercentage"})

C5_FallbackOrRaise ==
    IF call.options.fallback = {} THEN NumberFormatError
    ELSE Ret(OrDefault(call.options.fallback, <<>>))

\* C5 (amended): formatCurrency and formatPercentage return the configured
\* fallback for a non-finite value and raise NumberFormatError for it when
\* none is configured; for a magnitude at or beyond the maximum safe integer
\* they raise NumberFormatError whether or not a fallback is configured.
C5_FallbackForNonFiniteOnly ==
    C5_Call =>
        /\ call.value \in NonFinite => res = C5_FallbackOrRaise
        /\ call.value \in {Big, NegBig} => res = NumberFormatError

\* A magnitude beyond the maximum safe integer has raised although a
\* fallback was configured.
C5_LargeValueRaisedDespiteFallback ==
    /\ C5_Call
    /\ call.value = Big
    /\ call.options.fallback = {<<"N", "/", "A">>}
    /\ res = NumberFormatError

\* C5 (as stated): whenever the value is non-finite or its magnitude is at or
\* beyond the maximum safe integer, the configured fallback is returned, and
\* NumberFormatError is raised if none is configured.
C5_FallbackForEveryUnformattable ==
    (C5_Call /\ call.value \in NonFinite \cup {Big, NegBig})
    => res = C5_FallbackOrRaise

C6_Call == Finished({"parseNumber"})

C6_Locale == OrDefault(call.locale, "en-US")

C6_IsText == call.value.t = "string"

C6_Blank == \A i \in 1..Len(call.value.s) : IsWhitespace(call.value.s[i])

\* What is left of the input once its whitespace and the locale's grouping
\* separators are removed and the locale's first decimal separator is
\* written as a period.
C6_Residue ==
    ReplaceFirst(
        RemoveAll(StripWhitespace(call.value.s), GroupSeparatorOf(C6_Locale)[1]),
        DecimalSeparatorOf(C6_Locale)[1], ".")

\* An optional leading sign, then digits with at most one period among them,
\* and at least one digit.
C6_Numeral(s) ==
    LET body == IF s # <<>> /\ s[1] \in {"-", "+"} THEN Tail(s) ELSE s
    IN  /\ \E i \in 1..Len(body) : body[i] \in DigitChars
        /\ \A i \in 1..Len(body) : body[i] \in DigitChars \cup {"."}
        /\ Cardinality({i \in 1..Len(body) : body[i] = "."}) <= 1

C6_Expected(i) ==
    LET c == call.value.s[i]
    IN  \/ c \in DigitChars
        \/ i = 1 /\ c \in {"-", "+"}
        \/ /\ C6_Locale \in KnownLocales
           /\ c \in {GroupSeparatorOf(C6_Locale)[1], DecimalSeparatorOf(C6_Locale)[1]}

C7_Call == Finished({"formatWithUnit"})

C7_Fallback == OrDefault(call.options.fallback, <<"0">>)

\* Settings the platform rejects: a decimals count toFixed and
\* Intl.NumberFormat both refuse, or a malformed locale tag handed to
\* Intl.NumberFormat.
C7_Rejected ==
    \/ call.options.decimals \in {{Whole(-1)}, {Whole(101)}, {PosInf}}
    \/ /\ call.options.unit \in {{"short"}, {"long"}}
       /\ call.options.locale = {"en_US"}

\* C7: formatWithUnit never raises; a non-finite value yields the fallback
\* (default "0"), and so does every internal formatting failure, such as a
\* decimals value the platform rejects.
C7_FormatWithUnitNeverRaises ==
    C7_Call =>
        /\ Returned(res)
        /\ call.value \in NonFinite => res.val = C7_Fallback
        /\ C7_Rejected => res.val = C7_Fallback

\* toFixed(-1) has failed on a finite value and the configured fallback came
\* back.
C7_FallbackAfterPlatformFailure ==
    /\ C7_Call
    /\ call.value = Whole(1024)
    /\ call.options.unit = {"bytes"}
    /\ call.options.decimals = {Whole(-1)}
    /\ call.options.fallback = {<<"N", "/", "A">>}
    /\ res = Ret(<<"N", "/", "A">>)

C8_Call ==
    Finished({"clamp", "roundToPrecision", "normalize", "interpolate",
              "compareNumbers", "isApproximatelyEqual", "isWithinRange"})

\* The numeric operands of the call in progress.
C8_Operands ==
    CASE call.fn \in {"clamp", "normalize"} -> {call.value, call.min, call.max}
      [] call.fn = "roundToPrecision" -> {call.value}
      [] call.fn = "interpolate" -> {call.start, call.end, call.factor}
      [] call.fn \in {"compareNumbers", "isApproximatelyEqual"} -> {call.a, call.b}
      [] call.fn = "isWithinRange" ->
             {call.value} \cup call.options.min \cup call.options.max

\* The precondition of the call in progress is violated (its operands being
\* finite).
C8_PreconditionViolated ==
    CASE call.fn = "normalize" -> ~Lt(call.min, call.max)
      [] call.fn = "interpolate" ->
             Lt(call.factor, Zero) \/ Lt(Whole(1), call.factor)
      [] call.fn = "roundToPrecision" ->
             LET p == OrDefault(call.precision, Zero)
             IN  ~(p.k = "fin" /\ p.d = 1 /\ p.n \in 0..20)
      [] call.fn = "compareNumbers" ->
             call.operator \notin {"=", "!=", ">", ">=", "<", "<="}
      [] OTHER -> FALSE

\* C8: clamp, roundToPrecision, normalize, interpolate, compareNumbers,
\* isApproximatelyEqual and isWithinRange raise NumberFormatError, and return
\* nothing, whenever a numeric operand is NaN or an infinity and whenever
\* their own precondition is violated.
C8_InvalidOperandRaises ==
    (C8_Call /\ (C8_Operands \cap NonFinite # {} \/ C8_PreconditionViolated))
    => res = NumberFormatError

\* interpolate has raised for a factor above 1 with every operand finite.
C8_RaisedOnPrecondition ==
    /\ Finished({"interpolate"})
    /\ C8_Operands \cap NonFinite = {}
    /\ call.factor = Fin(3, 2)
    /\ res = NumberFormatError

C9_Call == Finished(Statistics) /\ IgnoreInvalid

\* The finite entries of the input, in their original order.
C9_FiniteEntries == SelectSeq(call.numbers, LAMBDA x : x \notin NonFinite)

\* The options of the call with ignoreInvalid switched off.
C9_Strict == [call.options EXCEPT !.ignoreInvalid = {FALSE}]

\* C9: with ignoreInvalid true, sum, average, median and mode return exactly
\* what they return with ignoreInvalid false on the subsequence of the finite
\* entries; invalid entries never raise and never change the result.
C9_IgnoringEqualsFiniteSubsequence ==
    C9_Call =>
        CASE call.fn = "sum" ->
                 Returned(res) /\ res = sum(C9_FiniteEntries, FALSE)
          [] call.fn = "average" ->
                 Returned(res) /\ res = average(C9_FiniteEntries, FALSE)
          [] call.fn = "median" ->
                 /\ res \in median(C9_FiniteEntries, C9_Strict)
                 /\ Cardinality(median(C9_FiniteEntries, C9_Strict)) = 1
          [] call.fn = "mode" -> res = mode(C9_FiniteEntries, C9_Strict)

\* average([1, NaN, 1.25], true) is 1.125: the sum of the two valid entries
\* over their count.
C9_AveragedOverValidEntries ==
    /\ Finished({"average"})
    /\ call.ignoreInvalid = {TRUE}
    /\ call.numbers = <<Whole(1), NaN, Fin(5, 4)>>
    /\ res = Ret(Fin(9, 8))

C10_Call ==
    /\ Finished(Statistics)
    /\ \/ call.numbers = <<>>
       \/ /\ IgnoreInvalid
          /\ \A i \in 1..Len(call.numbers) : call.numbers[i] \in NonFinite

\* C10: on an empty sequence sum, average and median return 0 and mode
\* returns the empty sequence, without raising; so they do when ignoreInvalid
\* is true and every entry is invalid.
C10_EmptyResults ==
    C10_Call => res = IF call.fn = "mode" THEN Ret(<<>>) ELSE Ret(Zero)

\* median([NaN, Infinity], {ignoreInvalid: true}) has returned 0.
C10_AllInvalidIgnored ==
    /\ Finished({"median"})
    /\ call.numbers = <<NaN, PosInf>>
    /\ call.options.ignoreInvalid = {TRUE}
    /\ res = Ret(Zero)

(***************************************************************************)
(* Properties of the statistics.                                           *)
(***************************************************************************)
\* The statistics call in progress has a non-empty array of finite numbers
\* and a precision roundToPrecision accepts.
FiniteSample ==
    /\ call.numbers # <<>>
    /\ \A i \in 1..Len(call.numbers) : call.numbers[i] \notin NonFinite
    /\ isValidDecimals(OrDefault(call.options.precision, Whole(2)))

\* 10^precision of the statistics call in progress.
SampleScale == Whole(Pow10(OrDefault(call.options.precision, Whole(2)).n))

\* r is a multiple of 10^-precision nearest to m.
RoundedFrom(r, m) ==
    /\ IsInteger(Mul(r, SampleScale))
    /\ Le(MathAbs(Sub(Mul(r, SampleScale), Mul(m, SampleScale))), Fin(1, 2))

\* The entry of rank k (counted from 0) in ascending order.
C11_AtRank(k) ==
    CHOOSE x \in {call.numbers[i] : i \in 1..Len(call.numbers)} :
        /\ Cardinality({i \in 1..Len(call.numbers) : Lt(call.numbers[i], x)}) <= k
        /\ Cardinality({i \in 1..Len(call.numbers) : Le(call.numbers[i], x)}) > k

\* The middle of the ascending order: the middle entry, or the mean of the
\* two middle entries.
C11_Middle ==
    LET n == Len(call.numbers)
    IN  IF n % 2 = 1 THEN C11_AtRank(n \div 2)
        ELSE Div(Add(C11_AtRank(n \div 2 - 1), C11_AtRank(n \div 2)), Whole(2))

C11_Permuted(p) == [i \in 1..Len(call.numbers) |-> call.numbers[p[i]]]

C11_Call == Finished({"median"}) /\ FiniteSample

C12_Call == Finished({"mode"}) /\ FiniteSample

\* The entry at position i rounded to the precision of the call.
C12_Rounded(i) ==
    roundToPrecision(call.numbers[i], OrDefault(call.options.precision, Whole(2)),
                     "round").val

\* How many entries round to v.
C12_Count(v) ==
    Cardinality({i \in 1..Len(call.numbers) : C12_Rounded(i) = v})

\* The rounded values whose count no other rounded value exceeds.
C12_MostFrequent ==
    {v \in {C12_Rounded(i) : i \in 1..Len(call.numbers)} :
        \A j \in 1..Len(call.numbers) : C12_Count(C12_Rounded(j)) <= C12_Count(v)}

\* C12: for a non-empty sequence of finite numbers mode rounds each entry to
\* precision decimals (default 2) and returns exactly the rounded values whose
\* occurrence count is the maximum one: every tied value, each once, in
\* strictly ascending order, never empty, whatever the order of the input.
C12_ModeIsMostFrequent ==
    C12_Call =>
        /\ Returned(res)
        /\ Len(res.val) >= 1
        /\ {res.val[i] : i \in 1..Len(res.val)} = C12_MostFrequent
        /\ \A i \in 1..(Len(res.val) - 1) : Lt(res.val[i], res.val[i + 1])
        /\ \A p \in Permutations(1..Len(call.numbers)) :
               mode(C11_Permuted(p), call.options) = res

\* mode([1, -1.5, 1.25], {precision: 0}) has returned [1]: 1 and 1.25 both
\* round to 1.
C12_GroupedAfterRounding ==
    /\ Finished({"mode"})
    /\ call.numbers = <<Whole(1), Fin(-3, 2), Fin(5, 4)>>
    /\ call.options.precision = {Zero}
    /\ res = Ret(<<Whole(1)>>)

(***************************************************************************)
(* Properties of the transforms and comparisons.                           *)
(***************************************************************************)
C13_Call ==
    /\ Finished({"clamp"})
    /\ {call.value, call.min, call.max} \cap NonFinite = {}
    /\ Le(call.min, call.max)

\* C13: for finite value, min, max with min <= max, clamp returns value when
\* min <= value <= max, min when value < min and max when value > max; the
\* result lies in [min, max] and clamping it again changes nothing.
C13_ClampToRange ==
    C13_Call =>
        /\ Returned(res)
        /\ (Le(call.min, call.value) /\ Le(call.value, call.max))
               => res.val = call.value
        /\ Lt(call.value, call.min) => res.val = call.min
        /\ Gt(call.value, call.max) => res.val = call.max
        /\ Le(call.min, res.val) /\ Le(res.val, call.max)
        /\ clamp(res.val, call.min, call.max) = res

\* clamp(1.5, 0, 1) has returned 1.
C13_ClampedToMax ==
    /\ Finished({"clamp"})
    /\ call.value = Fin(3, 2) /\ call.min = Zero /\ call.max = Whole(1)
    /\ res = Ret(Whole(1))

C14_Call ==
    /\ Finished({"random"})
    /\ {call.min, call.max} \cap NonFinite = {}
    /\ Le(call.min, call.max)
    /\ isValidDecimals(OrDefault(call.decimals, Zero))

\* C14 (as stated): for finite min <= max and decimals in 0..20, every value
\* random can return lies in [min, max], whatever the draw, also when min and
\* max are not multiples of 10^-decimals.
C14_RandomWithinRange ==
    C14_Call =>
        /\ Returned(res)
        /\ Le(call.min, res.val) /\ Le(res.val, call.max)

\* random(0.4, 0.6, 0) has returned 1 (the draw 0.5 gives 0.5, rounded to 1).
C14_RoundedOutOfRange ==
    /\ Finished({"random"})
    /\ call.min = Fin(2, 5) /\ call.max = Fin(3, 5) /\ call.decimals = {Zero}
    /\ res = Ret(Whole(1))

C15_Call ==
    /\ Finished({"isWithinRange"})
    /\ call.options.min # {} /\ call.options.max # {}
    /\ ({call.value} \cup call.options.min \cup call.options.max) \cap NonFinite = {}

C15_Min == OrDefault(call.options.min, Zero)

C15_Max == OrDefault(call.options.max, Zero)

\* C15: for finite value, min and max, isWithinRange raises NumberFormatError
\* if min > max; otherwise it returns min <= value <= max when inclusive is
\* true or omitted and min < value < max when inclusive is false, which is
\* false for every value when min = max.
C15_RangeCheck ==
    C15_Call =>
        IF Gt(C15_Min, C15_Max) THEN res = NumberFormatError
        ELSE IF call.options.inclusive = {FALSE}
        THEN /\ res = Ret(Lt(C15_Min, call.value) /\ Lt(call.value, C15_Max))
             /\ C15_Min = C15_Max => res = Ret(FALSE)
        ELSE res = Ret(Le(C15_Min, call.value) /\ Le(call.value, C15_Max))

\* isWithinRange(1, {min: 1, max: 1, inclusive: false}) has returned false.
C15_ExclusivePointRange ==
    /\ Finished({"isWithinRange"})
    /\ call.value = Whole(1)
    /\ call.options = [min |-> {Whole(1)}, max |-> {Whole(1)}, inclusive |-> {FALSE}]
    /\ res = Ret(FALSE)

(***************************************************************************)
(* Properties of the formatters.                                           *)
(***************************************************************************)
\* The decimal digits of the magnitude of the integer value of the call.
IntegerDigits == NatToString(Abs(call.value.n))

\* The value of the call is an integer below the maximum safe integer.
IntegerValue == call.value.k = "fin" /\ call.value.d = 1

C16_Start == OrDefault(call.options.start, Zero).n

C16_End == OrDefault(call.options.end, Zero).n

C16_Call ==
    /\ Finished({"maskNumber"})
    /\ IntegerValue
    /\ call.options.start # {} /\ call.options.end # {}
    /\ \A c \in call.options.start \cup call.options.end :
           c.k = "fin" /\ c.d = 1 /\ c.n >= 0
    /\ C16_Start + C16_End <= Len(IntegerDigits)
    /\ Len(OrDefault(call.options.mask, <<"*">>)) = 1

\* C16 (as stated): for an integer of n digits and explicitly supplied
\* start = s >= 0 and end = e >= 0 with s + e <= n, maskNumber returns, after
\* the optional '-', exactly n characters: the first s digits, n - s - e
\* copies of the mask character, the last e digits.
C16_VisibleEndsOnly ==
    C16_Call =>
        LET n == Len(IntegerDigits)
        IN  res = Ret((IF call.value.n < 0 THEN <<"-">> ELSE <<>>)
                      \o SubSeq(IntegerDigits, 1, C16_Start)
                      \o Repeat(OrDefault(call.options.mask, <<"*">>),
                                n - C16_Start - C16_End)
                      \o SubSeq(IntegerDigits, n - C16_End + 1, n))

\* maskNumber(1234567, {start: 2, end: 0}) has returned '12*****1234567':
\* intPart.slice(-0) is the whole string.
C16_EveryDigitExposed ==
    /\ Finished({"maskNumber"})
    /\ call.value = Whole(1234567)
    /\ call.options = [start |-> {Whole(2)}, end |-> {Zero}, mask |-> {},
                       preserveDecimals |-> {}]
    /\ res = Ret(<<"1", "2", "*", "*", "*", "*", "*", "1", "2", "3", "4", "5", "6", "7">>)

\* The value of the call has a fractional part.
C17_Fractional == call.value.k = "fin" /\ call.value.d # 1

\* The digits before and after the point in the decimal expansion of the
\* magnitude of the value.
C17_IntegerDigits ==
    IF call.value.k = "big" THEN BigDigits
    ELSE NatToString(Abs(call.value.n) \div call.value.d)

C17_Fraction ==
    LET m == Abs(call.value.n)
        f == FracLen(m, call.value.d, 0)
    IN  FixedWidth(((m * Pow10(f)) \div call.value.d) % Pow10(f), f)

C17_NoOptions == \A f \in DOMAIN call.options : call.options[f] = {}

\* The result without its leading '-', if it has one.
C17_Unsigned ==
    IF res.val # <<>> /\ res.val[1] = "-" THEN Tail(res.val) ELSE res.val

C17_Call == Finished({"maskNumber"}) /\ isValidNumber(call.value)

\* C17 (as stated): with no options, a non-negative integer of n digits gives
\* n - min(n, 2) '*' characters followed by its last min(n, 2) digits.  For a
\* value with a fractional part every integer digit is masked whatever start
\* and end are, and the fractional digits are kept when preserveDecimals is
\* true, and otherwise each replaced by '*' when no option was supplied and by
\* '#' when any option was supplied; their number is unchanged.
C17_DefaultAndFractionMasking ==
    C17_Call =>
        /\ (C17_NoOptions /\ ~C17_Fractional /\ ~Lt(call.value, Zero)) =>
               LET n == Len(C17_IntegerDigits)
                   k == IF n < 2 THEN n ELSE 2
               IN  res = Ret([i \in 1..n |->
                                IF i <= n - k THEN "*" ELSE C17_IntegerDigits[i]])
        /\ C17_Fractional =>
               /\ Returned(res)
               /\ C17_Unsigned =
                      Repeat(OrDefault(call.options.mask, <<"*">>),
                             Len(C17_IntegerDigits))
                      \o <<".">>
                      \o [i \in 1..Len(C17_Fraction) |->
                            IF call.options.preserveDecimals = {TRUE}
                            THEN C17_Fraction[i]
                            ELSE IF C17_NoOptions THEN "*" ELSE "#"]

\* maskNumber(0.0000001) has returned '**-7': the text of the value is
\* '1e-7', which has no point and is masked as if it were integer digits.
C17_ExponentExposed ==
    /\ Finished({"maskNumber"})
    /\ call.value = Fin(1, 10000000)
    /\ C17_NoOptions
    /\ res = Ret(<<"*", "*", "-", "7">>)


\* formatNumber has finished on a finite value with valid decimals and
\* separators that are valid and distinct.
C18_Decimals == OrDefault(call.options.decimals, Whole(2))

C18_Thousands == OrDefault(call.options.thousandsSeparator, <<",">>)

C18_Decimal == OrDefault(call.options.decimalSeparator, <<".">>)

C18_Call ==
    /\ Finished({"formatNumber"})
    /\ isValidNumber(call.value)
    /\ isValidDecimals(C18_Decimals)
    /\ Len(C18_Thousands) <= 3 /\ Len(C18_Decimal) <= 3
    /\ C18_Thousands # C18_Decimal

\* |value| * 10^d rounded to the nearest integer, for a value below the
\* maximum safe integer.
C18_Scaled ==
    LET p == Pow10(C18_Decimals.n)
    IN  (2 * Abs(call.value.n) * p + call.value.d) \div (2 * call.value.d)

\* The digits with the thousands separator between the groups of three
\* counted from the right.
RECURSIVE C18_Grouped(_)
C18_Grouped(digits) ==
    IF Len(digits) <= 3 THEN digits
    ELSE C18_Grouped(SubSeq(digits, 1, Len(digits) - 3))
         \o C18_Thousands \o SubSeq(digits, Len(digits) - 2, Len(digits))

\* C18 (as stated): for a finite value below the maximum safe integer in
\* magnitude, valid decimals d and distinct valid separators, formatNumber
\* returns '-' iff value < 0, then the integer digits of |value| rounded to d
\* places with the thousands separator between each group of 3 digits counted
\* from the right, then, iff d > 0, the decimal separator and exactly d
\* digits; at or beyond the maximum safe integer the result is in exponential
\* notation.
C18_GroupedFixedLayout ==
    C18_Call =>
        IF call.value.k = "big"
        THEN Returned(res) /\ \E i \in 1..Len(res.val) : res.val[i] = "e"
        ELSE LET d == C18_Decimals.n
             IN  res = Ret((IF call.value.n < 0 THEN <<"-">> ELSE <<>>)
                           \o C18_Grouped(NatToString(C18_Scaled \div Pow10(d)))
                           \o (IF d > 0
                               THEN C18_Decimal \o FixedWidth(C18_Scaled % Pow10(d), d)
                               ELSE <<>>))

\* formatNumber(1000000, {thousandsSeparator: '$$'}) has returned
\* '1$000$000.00': in the replacement text of replace, '$$' stands for '$'.
C18_DollarPatternExpanded ==
    /\ Finished({"formatNumber"})
    /\ call.value = Whole(1000000)
    /\ call.options.decimals = {} /\ call.options.decimalSeparator = {}
    /\ call.options.thousandsSeparator = {<<"$", "$">>}
    /\ res = Ret(<<"1", "$", "0", "0", "0", "$", "0", "0", "0", ".", "0", "0">>)


C19_Unit == OrDefault(call.options.unit, "metric")

C19_Decimals == OrDefault(call.options.decimals, Whole(2))

\* formatWithUnit has finished on a finite value with the bytes or the metric
\* ladder and a number of decimals that toFixed accepts.
C19_Call ==
    /\ Finished({"formatWithUnit"})
    /\ isValidNumber(call.value)
    /\ C19_Unit \in {"bytes", "metric"}
    /\ IsInteger(C19_Decimals) /\ C19_Decimals.n >= 0 /\ C19_Decimals.n <= 100

C19_Base == IF C19_Unit = "bytes" THEN 1024 ELSE 1000

C19_Ladder == IF C19_Unit = "bytes" THEN ByteUnits ELSE MetricUnits

RECURSIVE C19_Power(_)
C19_Power(i) == IF i = 0 THEN 1 ELSE C19_Base * C19_Power(i - 1)

\* |value| / base^i < base, for i from 0 (base^4 exceeds every rational of
\* the model, and n * base^x with 0 < |n| < base is below base^(i + 1) iff
\* x <= i).
C19_Below(i) ==
    IF call.value.k = "pow" THEN call.value.x <= i
    ELSE i > 3 \/ (Abs(call.value.n) \div call.value.d) \div C19_Power(i) < C19_Base

\* The least i with |value| / base^i < base, capped at the last unit.
C19_Index ==
    LET last == Len(C19_Ladder) - 1
    IN  IF \E i \in 0..last : C19_Below(i)
        THEN CHOOSE i \in 0..last : C19_Below(i) /\ \A j \in 0..(i - 1) : ~C19_Below(j)
        ELSE last

\* |value| / base^C19_Index with `decimals` fixed digits.
C19_Fixed ==
    IF call.value.k = "pow" /\ call.value.x - C19_Index > 1
    THEN NatToString(Abs(call.value.n))
         \o Repeat(<<"0">>, 3 * (call.value.x - C19_Index))
         \o (IF C19_Decimals.n = 0 THEN <<>>
             ELSE <<".">> \o Repeat(<<"0">>, C19_Decimals.n))
    ELSE toFixed(IF call.value.k = "pow"
                 THEN Whole(Abs(call.value.n) * C19_Power(call.value.x - C19_Index))
                 ELSE Fin(Abs(call.value.n), call.value.d * C19_Power(C19_Index)),
                 C19_Decimals).val

\* C19 (as stated): for a finite value, formatWithUnit with unit 'bytes' (base 1024,
\* ladder B, KB, MB, GB, TB, PB) or 'metric' (base 1000, ladder '', K, M, B,
\* T) chooses the least unit index i with |value| / base^i < base, capped at
\* the last unit, and returns '-' iff value < 0, then |value| / base^i with
\* `decimals` fixed digits, then the unit, after a space for bytes and
\* directly for metric.
C19_LadderUnit ==
    C19_Call =>
        res = Ret((IF Lt(call.value, Zero) THEN <<"-">> ELSE <<>>)
                  \o C19_Fixed
                  \o (IF C19_Unit = "bytes" THEN <<" ">> ELSE <<>>)
                  \o C19_Ladder[C19_Index + 1])

\* formatWithUnit(1e36, {unit: 'metric'}) has returned '1e+24T': toFixed
\* writes a magnitude of 1e21 or more in exponential notation.
C19_ExponentialMagnitude ==
    /\ Finished({"formatWithUnit"})
    /\ call.value = Scaled(1, 1000, 12)
    /\ call.options.unit = {"metric"} /\ call.options.decimals = {}
    /\ res = Ret(<<"1", "e", "+", "2", "4", "T">>)


\* formatOrdinal has finished on an integer.
C20_Call ==
    /\ Finished({"formatOrdinal"})
    /\ call.value.k \in {"big", "pow"} \/ IsInteger(call.value)

\* The decimal digits of |n|.
C20_Digits ==
    CASE call.value.k = "big" -> BigDigits
      [] call.value.k = "pow" ->
            NatToString(Abs(call.value.n)) \o Repeat(<<"0">>, 3 * call.value.x)
      [] OTHER -> NatToString(Abs(call.value.n))

\* The last two digits of |n| as a number: |n| mod 100.
C20_LastTwo ==
    LET len == Len(C20_Digits)
        digit(i) == CHOOSE x \in 0..9 : Digits[x + 1] = C20_Digits[i]
    IN  IF len = 1 THEN digit(1) ELSE 10 * digit(len - 1) + digit(len)

\* C20 (as stated): for every integer n and every locale argument,
\* formatOrdinal returns the decimal numeral of n, with its '-' when n < 0,
\* followed by 'th' when |n| mod 100 is 11, 12 or 13, otherwise by 'st', 'nd'
\* or 'rd' when |n| mod 10 is 1, 2 or 3, otherwise by 'th'; the locale does
\* not change the result.
C20_NumeralAndSuffix ==
    C20_Call =>
        res = Ret((IF call.value.n < 0 THEN <<"-">> ELSE <<>>)
                  \o C20_Digits
                  \o (IF C20_LastTwo \in {11, 12, 13} THEN <<"t", "h">>
                      ELSE CASE C20_LastTwo % 10 = 1 -> <<"s", "t">>
                             [] C20_LastTwo % 10 = 2 -> <<"n", "d">>
                             [] C20_LastTwo % 10 = 3 -> <<"r", "d">>
                             [] OTHER -> <<"t", "h">>))

\* formatOrdinal(1e21) has returned '1e+21th': `${value}` writes an integer of
\* 1e21 or more in exponential notation.
C20_ExponentialNumeral ==
    /\ Finished({"formatOrdinal"})
    /\ call.value = Scaled(1, 1000, 7)
    /\ res = Ret(<<"1", "e", "+", "2", "1", "t", "h">>)


\* toWords has finished on an integer.
C21_Call ==
    /\ Finished({"toWords"})
    /\ call.value.k \in {"big", "pow"} \/ IsInteger(call.value)

\* The plain decimal numeral of |n|.
C21_Numeral ==
    CASE call.value.k = "big" -> BigDigits
      [] call.value.k = "pow" ->
            NatToString(Abs(call.value.n)) \o Repeat(<<"0">>, 3 * call.value.x)
      [] OTHER -> NatToString(Abs(call.value.n))

\* The English spelling of |n| below 100, the numeral from 100.
C21_Words ==
    LET m == Abs(call.value.n)
    IN  IF call.value.k # "fin" \/ m >= 100 THEN C21_Numeral
        ELSE IF m < 10 THEN WordUnits[m + 1]
        ELSE IF m < 20 THEN WordTeens[m - 9]
        ELSE IF m % 10 = 0 THEN WordTens[(m \div 10) + 1]
        ELSE WordTens[(m \div 10) + 1] \o <<"-">> \o WordUnits[(m % 10) + 1]

\* C21 (as stated): for an integer n in 0..99 toWords returns the English
\* spelling of n (unit word, teen word, tens word, or tens word, '-' and unit
\* word); for a negative integer it returns 'negative ' and then the words of
\* |n|; for an integer n >= 100 it returns the plain decimal numeral of n.
C21_SpelledOrNumeral ==
    C21_Call =>
        res = Ret((IF call.value.n < 0 THEN <<"n", "e", "g", "a", "t", "i", "v", "e", " ">> ELSE <<>>) \o C21_Words)

\* toWords(1e21) has returned '1e+21': toString writes an integer of 1e21 or
\* more in exponential notation.
C21_ExponentialWords ==
    /\ Finished({"toWords"})
    /\ call.value = Scaled(1, 1000, 7)
    /\ res = Ret(<<"1", "e", "+", "2", "1">>)


C22_MinIntegers == OrDefault(call.minIntegers, Whole(1))

C22_MinDecimals == OrDefault(call.minDecimals, Zero)

\* padNumber has finished on a finite value with widths that are non-negative
\* integers.
C22_Call ==
    /\ Finished({"padNumber"})
    /\ isValidNumber(call.value)
    /\ IsInteger(C22_MinIntegers) /\ C22_MinIntegers.n >= 0
    /\ IsInteger(C22_MinDecimals) /\ C22_MinDecimals.n >= 0

\* C22 (as stated): for a finite value and non-negative integer widths,
\* padNumber returns '-' iff value < 0, then the integer digits of |value|
\* left-padded with '0' to at least minIntegers characters, then, iff the
\* value has fractional digits or minDecimals > 0, a '.' and the fractional
\* digits right-padded with '0' to at least minDecimals characters.
C22_PaddedDigits ==
    C22_Call =>
        res = Ret((IF call.value.n < 0 THEN <<"-">> ELSE <<>>)
                  \o Repeat(<<"0">>, C22_MinIntegers.n - Len(C17_IntegerDigits))
                  \o C17_IntegerDigits
                  \o (IF C17_Fraction # <<>> \/ C22_MinDecimals.n > 0
                      THEN <<".">> \o C17_Fraction
                           \o Repeat(<<"0">>, C22_MinDecimals.n - Len(C17_Fraction))
                      ELSE <<>>))

\* padNumber(0.0000001, 2, 2) has returned '1e-7.00': the text of the value
\* is '1e-7', which is padded as if it were integer digits.
C22_ExponentPadded ==
    /\ Finished({"padNumber"})
    /\ call.value = Fin(1, 10000000)
    /\ call.minIntegers = {Whole(2)} /\ call.minDecimals = {Whole(2)}
    /\ res = Ret(<<"1", "e", "-", "7", ".", "0", "0">>)


(***************************************************************************)
(* Properties of the comparisons, conversions and round trips.             *)
(***************************************************************************)
C23_Call ==
    /\ Finished({"isApproximatelyEqual"})
    /\ isValidNumber(call.a) /\ isValidNumber(call.b)

C23_Difference == MathAbs(Sub(call.a, call.b))

C23_Absolute == OrDefault(call.precision.absolute, Tiny)

\* The average magnitude of a and b: (|a| + |b|) / 2.
C23_AverageMagnitude == Div(Add(MathAbs(call.a), MathAbs(call.b)), Whole(2))

\* C23 (as stated): for finite a and b, with a relative tolerance r
\* isApproximatelyEqual returns |a - b| < r * (|a| + |b|) / 2, and the
\* absolute comparison only when (|a| + |b|) / 2 is zero; without a relative
\* tolerance it returns |a - b| < absolute (default 1e-10); the result is the
\* same with a and b exchanged.
C23_RelativeToAverageMagnitude ==
    C23_Call =>
        /\ res = Ret(IF call.precision.relative # {} /\ C23_AverageMagnitude # Zero
                     THEN Lt(C23_Difference,
                             Mul(OrDefault(call.precision.relative, Zero),
                                 C23_AverageMagnitude))
                     ELSE Lt(C23_Difference, C23_Absolute))
        /\ res = isApproximatelyEqual(call.b, call.a, call.precision)

\* isApproximatelyEqual(1, -1, {absolute: 3, relative: 0.5}) has returned
\* true: |a + b| / 2 is zero, so the absolute tolerance decided, although
\* |a - b| = 2 is not below 0.5 * (|a| + |b|) / 2 = 0.5.
C23_OppositeSignsFallBack ==
    /\ Finished({"isApproximatelyEqual"})
    /\ call.a = Whole(1) /\ call.b = Whole(-1)
    /\ call.precision = [absolute |-> {Whole(3)}, relative |-> {Fin(1, 2)}]
    /\ res = Ret(TRUE)


\* normalize has returned: its operands are finite and min < max.
C24_Normalized == call.fn = "normalize" /\ Returned(res) /\ fed = NoCall

\* The interpolation fed with a normalized value has finished.
C24_Interpolated == fed.fn = "normalize" /\ Finished({"interpolate"})

C25_Formatted ==
    /\ fed.fn = "formatNumber"
    /\ fed.value.k = "fin"
    /\ OrDefault(fed.options.decimals, Whole(2)) = Whole(2)
    /\ Finished({"parseNumber"})

C25_FormatParseRoundTrip ==
    C25_Formatted =>
        /\ Returned(res)
        /\ res.val # Null
        /\ isValidNumber(res.val)
        /\ Le(MathAbs(Sub(res.val, fed.value)), Fin(1, 100))

\* formatNumber(-1234.56, {decimals: 2}) is '-1,234.56', parsed to -1234.56.
C25_NegativeThousandsParsed ==
    /\ C25_Formatted
    /\ fed.value = Fin(-123456, 100)
    /\ call.value.s = <<"-", "1", ",", "2", "3", "4", ".", "5", "6">>
    /\ res = Ret(Fin(-123456, 100))


\* C26: rounding a finite value at a precision in 0..20 and rounding the
\* result again at the same precision and mode does not raise and returns
\* the first result.
C26_RoundedTwice ==
    /\ fed.fn = "roundToPrecision"
    /\ isValidNumber(fed.value)
    /\ Finished({"roundToPrecision"})

C26_RoundingIdempotent ==
    C26_RoundedTwice => res = Ret(call.value)

\* roundToPrecision(1e308, 1) is Infinity, which the second call refuses.
C26_OverflowRefused ==
    /\ C26_RoundedTwice
    /\ fed.value = Scaled(1, 10, 308)
    /\ fed.precision = {Whole(1)}
    /\ call.value = PosInf
    /\ res = NumberFormatError


C27_Call ==
    /\ Finished({"isWithinRange"})
    /\ call.options.min = {} \/ call.options.max = {}
    /\ ({call.value} \cup call.options.min \cup call.options.max) \cap NonFinite = {}

\* C27: with min or max omitted from the options, isWithinRange does not
\* raise for a finite value: it returns the range check against the bounds
\* given, the omitted ones being -Infinity and +Infinity.
C27_OneSidedRange ==
    C27_Call =>
        res = Ret(isInRange(call.value, OrDefault(call.options.min, NegInf),
                            OrDefault(call.options.max, PosInf),
                            OrDefault(call.options.inclusive, TRUE)))

\* isWithinRange(1, {min: 0}) has raised NumberFormatError.
C27_OmittedMaxRaises ==
    /\ C27_Call
    /\ call.value = Whole(1)
    /\ call.options = [min |-> {Zero}, max |-> {}, inclusive |-> {}]
    /\ res = NumberFormatError


C28_Call ==
    /\ Finished({"maskNumber"})
    /\ isValidNumber(call.value)
    /\ Lt(call.value, Zero)

\* The outcome of maskNumber for the magnitude of the value, same options.
C28_OfMagnitude == maskNumber(MathAbs(call.value), call.options)

\* C28: for a negative finite value, an integer or not, maskNumber returns
\* '-' followed by what it returns for the magnitude of the value under the
\* same options (and raises where that call raises).
C28_SignKept ==
    C28_Call =>
        IF Raised(C28_OfMagnitude) THEN res = C28_OfMagnitude
        ELSE res = Ret(<<"-">> \o C28_OfMagnitude.val)

\* maskNumber(-1234.56) is '****.**', the result for 1234.56: the sign is lost.
C28_FractionLosesSign ==
    /\ C28_Call
    /\ call.value = Fin(-123456, 100)
    /\ KeyCount(call.options) = 0
    /\ res = Ret(<<"*", "*", "*", "*", ".", "*", "*">>)
    /\ res = C28_OfMagnitude


\* A ladder call whose value is valid and whose decimals toFixed accepts as
\* they are.
C29_Call ==
    /\ Finished({"formatWithUnit"})
    /\ OrDefault(call.options.unit, "metric") \in {"bytes", "metric"}
    /\ isValidNumber(call.value)
    /\ OrDefault(call.options.decimals, Whole(2)) \in
           {Whole(p) : p \in 0..MaxPrecision}
    /\ Returned(res)

C29_Base == IF call.options.unit = {"bytes"} THEN 1024 ELSE 1000

\* The unit letters at the end of the text, and the numeral before them.
C29_UnitShown == SelectSeq(res.val, LAMBDA c : c \in {"B", "K", "M", "G", "T", "P"})

C29_NumeralShown == SelectSeq(res.val, LAMBDA c : c \in DigitChars \cup {"."})

C29_LastUnit == IF call.options.unit = {"bytes"} THEN <<"P", "B">> ELSE <<"T">>

\* C29: in the text formatWithUnit writes for the units bytes and metric,
\* the numeral is strictly below the base of the ladder (1024, 1000) unless
\* the unit shown is the last one of the ladder (PB, T).
C29_NumeralBelowBase ==
    C29_Call =>
        \/ C29_UnitShown = C29_LastUnit
        \/ Lt(StringToNumber(C29_NumeralShown), Whole(C29_Base))

\* formatWithUnit(999999, {unit: 'metric'}) is '1000.00K'.
C29_RoundedUpToBase ==
    /\ C29_Call
    /\ call.value = Whole(999999)
    /\ call.options.unit = {"metric"}
    /\ call.options.decimals = {}
    /\ res = Ret(<<"1", "0", "0", "0", ".", "0", "0", "K">>)


C30_Call ==
    /\ Finished({"toWords"})
    /\ isValidNumber(call.value)

\* The text 'undefined' occurs in the string s.
C30_MentionsUndefined(s) ==
    \E i \in 1..Len(s) :
        /\ i + 8 <= Len(s)
        /\ SubSeq(s, i, i + 8) = Stringify(Undefined)

\* C30: for every finite value, an integer or not, negative or not, toWords
\* returns a string that is not empty: never undefined, and never a text
\* that contains 'undefined'.
C30_WellFormedWords ==
    C30_Call =>
        /\ Returned(res)
        /\ res.val # Undefined
        /\ res.val # <<>>
        /\ ~C30_MentionsUndefined(res.val)

\* toWords(1.5) has returned undefined: units[1.5] is no element of the table.
C30_FractionUndefined ==
    /\ C30_Call
    /\ call.value = Fin(3, 2)
    /\ res = Ret(Undefined)

====
